---- MODULE Spec2Model ----
(***************************************************************************)
(* Model of the Helm repository index engine of semantic-release-helm.     *)
(*                                                                         *)
(* The repository holds two revisions of the HelmIndex class:              *)
(*   - src/src/helm-index.ts            (impl = "indexTs")                 *)
(*   - src/src/helm-chart.ts:381-490    (impl = "chartTs")                 *)
(* Both are modelled; the variable impl says which one a behaviour runs.   *)
(*                                                                         *)
(* Representation of JavaScript / YAML values:                             *)
(*   - a string that the code takes apart (a version, a base URL) is a     *)
(*     sequence of tokens: a version is the sequence of its dot-separated  *)
(*     segments ("1.0.0" is <<"1","0","0">>), so that split('.') is the    *)
(*     sequence itself and string equality is sequence equality; a URL is  *)
(*     the sequence of its pieces with "/" and " " as tokens of their own; *)
(*   - a YAML number is the token "#n" ("#2" is the number 2);             *)
(*   - an ISO-8601 timestamp is the millisecond count it denotes;          *)
(*   - an absent key / undefined is a sentinel of the field's type.        *)
(***************************************************************************)
EXTENDS Integers, Sequences, FiniteSets, TLC

VARIABLES
    impl,     \* which revision of HelmIndex runs: "indexTs" or "chartTs"
    file,     \* content of index.yaml on disk (abstract YAML value)
    heap,     \* the `entries` objects: address -> map name -> list of entries
    idx,      \* the HelmIndex instance the caller holds (NoIndex before any)
    recv,     \* the receiver of the last append (NoIndex when none)
    snap,     \* the receiver's document as it was when the last append began
    now,      \* the wall clock read by new Date()
    last,     \* the last operation: its name, inputs and outcome
    cycle,    \* position in the fromFile -> append -> writeTo cycle
    pend,     \* (name, version) pairs appended since the last load
    hist,     \* (name, version) pairs written by completed cycles
    nApp,     \* number of append calls so far
    prov,     \* where idx comes from, and the file before the last operation
    hc,       \* the HelmChart objects: Chart.yaml, instances, maps handed out
    sh,       \* a runHostCmd call: the command's outcome, both log channels, the result
    vc,       \* a verifyConditions call: configuration, environment, outcome
    prep,     \* a prepare call: Chart.yaml, dist/charts, the steps run so far
    pub,      \* a publish call: dist/charts, the git repositories, the steps run so far
    conc      \* two publishers working on one index.yaml

vars ==
    <<impl, file, heap, idx, recv, snap, now, last, cycle, pend, hist, nApp, prov, hc,
      sh, vc, prep, pub, conc>>

\* The variables of the plugin's steps (index.ts, command-runner.ts).
PluginVars == <<sh, vc, prep, pub, conc>>

\* No step of the plugin is looked at.
Idle == [pc |-> "idle"]

PluginIdle ==
    /\ sh = Idle
    /\ vc = Idle
    /\ prep = Idle
    /\ pub = Idle
    /\ conc = Idle

(***************************************************************************)
(* Bounds of the model.                                                    *)
(***************************************************************************)
MaxAppends == 2
MaxClock == 2

(***************************************************************************)
(* Sentinels for undefined / absent.                                       *)
(***************************************************************************)
UndefStr == "<undefined>"
NoVer == <<>>
NoTime == -1
NoUrls == << <<"<undefined>">> >>

Keys == {"apiVersion", "name", "version", "created", "digest", "urls",
         "appVersion", "description"}

UndefOf(k) ==
    CASE k = "version" -> NoVer
      [] k = "created" -> NoTime
      [] k = "urls" -> NoUrls
      [] OTHER -> UndefStr

Present(k, v) == v # UndefOf(k)

NoFields == [k \in Keys |-> UndefOf(k)]

(***************************************************************************)
(* String(v) and Number(v) on the tokens of the model.                     *)
(***************************************************************************)
IsNumTok(s) == s \in {"#1", "#2", "#42"}

StringOf(s) ==
    CASE s = "#1" -> "1"
      [] s = "#2" -> "2"
      [] s = "#42" -> "42"
      [] OTHER -> s

\* Number(n) of a version segment; NaN is -1 (no segment of the model is
\* negative), and Number.isFinite(NaN) is false.
NaN == -1

NumberOf(s) ==
    CASE s = "" -> 0
      [] s = "0" -> 0
      [] s = "1" -> 1
      [] s = "2" -> 2
      [] s = "5" -> 5
      [] s = "9" -> 9
      [] s = "10" -> 10
      [] OTHER -> NaN

\* as[i] of helm-index.ts:188-189: a missing or non-finite segment is 0.
SegAt(segs, i) ==
    IF i <= Len(segs) /\ NumberOf(segs[i]) # NaN THEN NumberOf(segs[i]) ELSE 0

\* A version read from YAML as a number (version: 2) or absent has no split().
IsStringVer(v) == v # NoVer /\ ~(Len(v) = 1 /\ IsNumTok(v[1]))

\* String(e.version) of helm-chart.ts:473.
StringOfVer(v) ==
    IF v = NoVer THEN <<"undefined">>
    ELSE IF Len(v) = 1 /\ IsNumTok(v[1]) THEN <<StringOf(v[1])>>
    ELSE v

Max(a, b) == IF a >= b THEN a ELSE b

RECURSIVE CmpFrom(_, _, _)
CmpFrom(as, bs, i) ==
    IF i > Max(Len(as), Len(bs)) THEN 0
    ELSE IF SegAt(as, i) # SegAt(bs, i) THEN SegAt(bs, i) - SegAt(as, i)
    ELSE CmpFrom(as, bs, i + 1)

\* The comparator of helm-index.ts:184-195; negative when a sorts first.
CompareVersions(a, b) == CmpFrom(a, b, 1)

\* Insert e into an already sorted list behind every element that does not
\* sort after it (Array.prototype.sort is stable).
RECURSIVE InsertSorted(_, _)
InsertSorted(e, s) ==
    IF s = <<>> THEN <<e>>
    ELSE IF CompareVersions(Head(s).version, e.version) > 0
         THEN <<e>> \o s
         ELSE <<Head(s)>> \o InsertSorted(e, Tail(s))

RECURSIVE SortDesc(_)
SortDesc(s) ==
    IF s = <<>> THEN <<>>
    ELSE InsertSorted(s[Len(s)], SortDesc(SubSeq(s, 1, Len(s) - 1)))

(***************************************************************************)
(* HelmChart: the accessors the index uses (helm-chart.ts:64-118). A chart *)
(* is its data map, a record over Keys.                                    *)
(***************************************************************************)
name(chart) == IF Present("name", chart.name) THEN StringOf(chart.name) ELSE ""

version(chart) == IF Present("version", chart.version) THEN StringOfVer(chart.version) ELSE NoVer

apiVersion(chart) ==
    IF Present("apiVersion", chart.apiVersion) THEN StringOf(chart.apiVersion) ELSE UndefStr

raw(chart) == [k \in Keys |-> chart[k]]

(***************************************************************************)
(* Archive, digest and URL.                                                *)
(***************************************************************************)
Unreadable == "<ENOENT>"

\* crypto.createHash('sha256').update(bytes).digest('hex'): injective on the
\* archive contents of the model.
Sha256(bytes) == "sha256:" \o bytes

IsSpace(t) == t = " "

RECURSIVE TrimEnd(_)
TrimEnd(s) ==
    IF s # <<>> /\ IsSpace(s[Len(s)]) THEN TrimEnd(SubSeq(s, 1, Len(s) - 1)) ELSE s

RECURSIVE TrimStart(_)
TrimStart(s) == IF s # <<>> /\ IsSpace(Head(s)) THEN TrimStart(Tail(s)) ELSE s

\* String.prototype.trim
Trim(s) == TrimEnd(TrimStart(s))

\* baseUrl.replace(/\/+$/, ''): every trailing slash goes.
RECURSIVE StripTrailingSlashes(_)
StripTrailingSlashes(s) ==
    IF s # <<>> /\ s[Len(s)] = "/"
    THEN StripTrailingSlashes(SubSeq(s, 1, Len(s) - 1))
    ELSE s

\* baseUrl.replace(/\/$/, ''): one trailing slash goes.
StripOneTrailingSlash(s) ==
    IF s # <<>> /\ s[Len(s)] = "/" THEN SubSeq(s, 1, Len(s) - 1) ELSE s

\* helm-chart.ts:438-441
UrlsChartTs(baseUrl, filename) ==
    IF Len(Trim(baseUrl)) > 0
    THEN << StripTrailingSlashes(baseUrl) \o <<"/", filename>> >>
    ELSE << <<filename>> >>

\* helm-index.ts:160 and 169
UrlsIndexTs(baseUrl, filename) ==
    << StripOneTrailingSlash(baseUrl) \o <<"/", filename>> >>

(***************************************************************************)
(* Building the entry.                                                     *)
(***************************************************************************)
Reserved == {"name", "version", "apiVersion", "created", "digest", "urls"}

\* passthroughAllExceptReserved with a denylist of name, version and
\* apiVersion only.
PassthroughExceptIdentity(rawMap, into) ==
    [k \in Keys |->
        IF k \in {"name", "version", "apiVersion"} \/ ~Present(k, rawMap[k]) THEN into[k]
        ELSE IF k = "appVersion" THEN StringOf(rawMap[k])
        ELSE rawMap[k]]

\* helm-chart.ts:349-375. appVersion is a string or a number in the model,
\* so the coercion always applies to it.
PassthroughAllExceptReserved(rawMap, into) ==
    [k \in Keys |->
        IF k \in Reserved \/ ~Present(k, rawMap[k]) THEN into[k]
        ELSE IF k = "appVersion" THEN StringOf(rawMap[k])
        ELSE rawMap[k]]

\* Overrides that skip the reserved keys.
ApplyExtraExceptReserved(entry, extra) ==
    [k \in Keys |->
        IF k \notin {"name", "version", "apiVersion", "created", "digest", "urls"}
           /\ Present(k, extra[k])
        THEN extra[k] ELSE entry[k]]

\* for (const [k, v] of Object.entries(extra)) entry[k] = v   and
\* { ...computed, ...(extra || {}) }: every key of extra is written last.
ApplyExtra(entry, extra) ==
    [k \in Keys |-> IF Present(k, extra[k]) THEN extra[k] ELSE entry[k]]

\* ComputedChartTs taking the entry's name from nowhere.
ComputedChartTsUnnamed(chart, digest, urls, created) ==
    [NoFields EXCEPT
        !.apiVersion = IF apiVersion(chart) # UndefStr THEN apiVersion(chart) ELSE "v2",
        !.version = IF version(chart) # NoVer THEN version(chart) ELSE <<"">>,
        !.created = created,
        !.digest = digest,
        !.urls = urls]

\* The fields the index computes itself (helm-chart.ts:443-450).
ComputedChartTs(chart, digest, urls, created) ==
    [NoFields EXCEPT
        !.apiVersion = IF apiVersion(chart) # UndefStr THEN apiVersion(chart) ELSE "v2",
        !.name = name(chart),
        !.version = IF version(chart) # NoVer THEN version(chart) ELSE <<"">>,
        !.created = created,
        !.digest = digest,
        !.urls = urls]

\* helm-chart.ts:443-458
EntryChartTs(chart, digest, urls, created, extra) ==
    ApplyExtra(
        PassthroughAllExceptReserved(raw(chart),
                                     ComputedChartTs(chart, digest, urls, created)),
        extra)

\* The fields the index computes itself (helm-index.ts:163-169).
ComputedIndexTs(chart, digest, urls, created) ==
    [NoFields EXCEPT
        !.apiVersion = "v2",
        !.name = name(chart),
        !.version = version(chart),
        !.created = created,
        !.digest = digest,
        !.urls = urls]

\* helm-index.ts:163-171
EntryIndexTs(chart, digest, urls, created, extra) ==
    ApplyExtra(ComputedIndexTs(chart, digest, urls, created), extra)

(***************************************************************************)
(* Merging the entry into the list of its name.                            *)
(***************************************************************************)
\* this.doc.entries[name] or, when the name is unseen, the empty list.
ListOf(entries, n) == IF n \in DOMAIN entries THEN entries[n] ELSE <<>>

\* MergeChartTs replacing the whole list by the new entry.
MergeChartTsAlone(existing, entry) == <<entry>>

\* MergeChartTs with the filter forgotten: the old entry of the version stays.
MergeChartTsKeepAll(existing, entry) == <<entry>> \o existing

\* helm-chart.ts:467-476: filter by String(version), then prepend.
MergeChartTs(existing, entry) ==
    LET Keep(e) == StringOfVer(e.version) # StringOfVer(entry.version)
    IN <<entry>> \o SelectSeq(existing, Keep)

\* MergedIndexTs keeping the created timestamp of the entry it replaces.
MergedIndexTsInheritCreated(existing, entry, ver) ==
    LET Keep(e) == e.version # ver
        Same(e) == e.version = ver
        olds == SelectSeq(existing, Same)
    IN SelectSeq(existing, Keep)
         \o <<IF olds # <<>> THEN [entry EXCEPT !.created = olds[1].created] ELSE entry>>

\* MergedIndexTs dropping every entry that ranks equal to the appended
\* version.
MergedIndexTsByRank(existing, entry, ver) ==
    LET Keep(e) == CompareVersions(e.version, ver) # 0
    IN SelectSeq(existing, Keep) \o <<entry>>

\* helm-index.ts:173-183: filter by strict inequality with chart.version(),
\* then add the fresh entry at the end.
MergedIndexTs(existing, entry, ver) ==
    LET Keep(e) == e.version # ver
    IN SelectSeq(existing, Keep) \o <<entry>>

\* helm-index.ts:184-195: a.version.split is a TypeError on a version that
\* is no string, and the comparator runs as soon as there are two elements.
SortThrows(merged) ==
    Len(merged) >= 2 /\ \E i \in 1..Len(merged) : ~IsStringVer(merged[i].version)

SortedIndexTs(merged) == SortDesc(merged)

\* WithList rebuilding the map from the appended name alone.
WithListDroppingOthers(entries, n, list) == [m \in {n} |-> list]

\* entries with the list of name n set (helm-chart.ts:476, helm-index.ts:198-216)
WithList(entries, n, list) ==
    [m \in DOMAIN entries \cup {n} |-> IF m = n THEN list ELSE entries[m]]

(***************************************************************************)
(* Documents, files and HelmIndex instances.                               *)
(*                                                                         *)
(* A document is [kind, apiVersion, generated, other, entries]: kind is    *)
(* "map" for a key-value document and "list" for a YAML sequence; other    *)
(* says whether a top-level key besides apiVersion, generated and entries  *)
(* is present. A file adds hasEntries and the kinds "absent", "empty",     *)
(* "garbage" (text yaml.parse rejects) and "scalar".                       *)
(* A HelmIndex instance holds its document's own fields and the address    *)
(* of its `entries` object on the heap.                                    *)
(***************************************************************************)
NoEntries == <<>>

MkDoc(kind, api, generated, other, entries) ==
    [kind |-> kind, apiVersion |-> api, generated |-> generated,
     other |-> other, entries |-> entries]

EmptyDoc == MkDoc("map", "v1", NoTime, FALSE, NoEntries)

NoDoc == MkDoc("none", UndefStr, NoTime, FALSE, NoEntries)

MkFile(kind, api, generated, other, hasEntries, entries) ==
    [kind |-> kind, apiVersion |-> api, generated |-> generated,
     other |-> other, hasEntries |-> hasEntries, entries |-> entries]

AbsentFile == MkFile("absent", UndefStr, NoTime, FALSE, FALSE, NoEntries)

Addr == {1, 2}

FreshAddr(a) == IF a = 1 THEN 2 ELSE 1

MkIndex(doc, a) ==
    [kind |-> doc.kind, apiVersion |-> doc.apiVersion,
     generated |-> doc.generated, other |-> doc.other, ent |-> a]

NoIndex == MkIndex(NoDoc, 1)

\* this.doc of instance ix on heap h. The entries of an array document are
\* Array.prototype.entries, which spreads to {} and holds no list.
DocOf(ix, h) ==
    MkDoc(ix.kind, ix.apiVersion, ix.generated, ix.other,
          IF ix.kind = "map" THEN h[ix.ent] ELSE NoEntries)

\* helm-index.ts:96-103: the constructor keeps apiVersion 'v1', a copy of
\* entries and generated, and nothing else.
HelmIndexCtor(entries, generated) == MkDoc("map", "v1", generated, FALSE, entries)

\* empty() that carries a generated timestamp.
EmptyStamped == MkDoc("map", "v1", 0, FALSE, NoEntries)

\* HelmIndex.empty(): helm-chart.ts:387-391, helm-index.ts:108-110
empty == EmptyDoc

Ok(doc) == [err |-> "none", doc |-> doc]

Throw(e) == [err |-> e, doc |-> NoDoc]

\* helm-index.ts:116-130
FromFileIndexTs(f) ==
    IF f.kind = "absent" THEN Ok(empty)
    ELSE IF f.kind = "garbage" THEN Throw("YAMLParseError")
    ELSE IF f.kind # "map" \/ f.apiVersion # "v1" THEN Ok(empty)
    ELSE IF ~f.hasEntries THEN Ok(HelmIndexCtor(NoEntries, NoTime))
    ELSE Ok(HelmIndexCtor(f.entries, f.generated))

\* helm-chart.ts:399-413. A scalar document is a primitive: assigning its
\* entries property is a TypeError in module (strict) code. An array has a
\* truthy entries property (the method) and is kept as the document.
FromFileChartTs(f) ==
    IF f.kind = "absent" THEN Ok(empty)
    ELSE IF f.kind = "garbage" THEN Throw("YAMLParseError")
    ELSE IF f.kind = "empty" THEN Ok(EmptyDoc)
    ELSE IF f.kind = "scalar" THEN Throw("TypeError")
    ELSE IF f.kind = "list" THEN Ok(MkDoc("list", "v1", NoTime, FALSE, NoEntries))
    ELSE Ok(MkDoc("map", "v1", f.generated, f.other,
                  IF f.hasEntries THEN f.entries ELSE NoEntries))

fromFile(i, f) == IF i = "indexTs" THEN FromFileIndexTs(f) ELSE FromFileChartTs(f)

\* Stringify writing a generated key into a document that has none.
StringifyStamped(doc) ==
    IF doc.kind = "list"
    THEN MkFile("list", UndefStr, NoTime, FALSE, FALSE, NoEntries)
    ELSE MkFile("map", doc.apiVersion,
                IF doc.generated = NoTime THEN 0 ELSE doc.generated,
                doc.other, TRUE, doc.entries)

\* yaml.stringify(this.doc) as the value yaml.parse reads back: a key whose
\* value is undefined is not written (helm-chart.ts:486-489,
\* helm-index.ts:236-259).
Stringify(doc) ==
    IF doc.kind = "list"
    THEN MkFile("list", UndefStr, NoTime, FALSE, FALSE, NoEntries)
    ELSE MkFile("map", doc.apiVersion, doc.generated, doc.other, TRUE, doc.entries)

(***************************************************************************)
(* append                                                                  *)
(***************************************************************************)
AppendResult(err, doc, entry) == [err |-> err, doc |-> doc, entry |-> entry]

AppendThrow(e) == AppendResult(e, NoDoc, NoFields)

\* AppendChartTs leaving the receiver's generated in the document.
AppendChartTsStale(this, chart, bytes, baseUrl, filename, extra, t) ==
    IF bytes = Unreadable THEN AppendThrow("ENOENT")
    ELSE
      LET urls == UrlsChartTs(baseUrl, filename)
          entry == EntryChartTs(chart, Sha256(bytes), urls, t, extra)
          key == name(chart)
          list == MergeChartTs(ListOf(this.entries, key), entry)
      IN AppendResult("none",
                      MkDoc("map", "v1", this.generated, FALSE,
                            WithList(this.entries, key, list)),
                      entry)

\* helm-chart.ts:427-478
AppendChartTs(this, chart, bytes, baseUrl, filename, extra, t) ==
    IF bytes = Unreadable THEN AppendThrow("ENOENT")
    ELSE
      LET urls == UrlsChartTs(baseUrl, filename)
          entry == EntryChartTs(chart, Sha256(bytes), urls, t, extra)
          key == name(chart)
          list == MergeChartTs(ListOf(this.entries, key), entry)
      IN AppendResult("none",
                      MkDoc("map", "v1", t, FALSE, WithList(this.entries, key, list)),
                      entry)

\* helm-index.ts:150-223
AppendIndexTs(this, chart, bytes, baseUrl, filename, extra, t) ==
    IF bytes = Unreadable THEN AppendThrow("ENOENT")
    ELSE
      LET urls == UrlsIndexTs(baseUrl, filename)
          entry == EntryIndexTs(chart, Sha256(bytes), urls, t, extra)
          key == name(chart)
          merged == MergedIndexTs(ListOf(this.entries, key), entry, version(chart))
      IN IF SortThrows(merged) THEN AppendThrow("TypeError")
         ELSE AppendResult("none",
                           HelmIndexCtor(WithList(this.entries, key, SortedIndexTs(merged)), t),
                           entry)

\* append hashing no bytes when the archive cannot be read.
AppendHashingNothing(i, this, chart, bytes, baseUrl, filename, extra, t) ==
    LET read == IF bytes = Unreadable THEN "" ELSE bytes
    IN IF i = "indexTs"
       THEN AppendIndexTs(this, chart, read, baseUrl, filename, extra, t)
       ELSE AppendChartTs(this, chart, read, baseUrl, filename, extra, t)

append(i, this, chart, bytes, baseUrl, filename, extra, t) ==
    IF i = "indexTs"
    THEN AppendIndexTs(this, chart, bytes, baseUrl, filename, extra, t)
    ELSE AppendChartTs(this, chart, bytes, baseUrl, filename, extra, t)

\* The merged list written into the receiver's own `entries` object.
SharedEntriesAddr(thisEnt) == thisEnt

\* The `entries` object the result of append writes the merged list into:
\* a copy of the receiver's ({ ...this.doc.entries }, helm-chart.ts:460-465;
\* the reduce and the constructor's spread, helm-index.ts:198-222 and 99).
ResultEntriesAddr(thisEnt) == FreshAddr(thisEnt)

(***************************************************************************)
(* HelmChart. The repository holds two revisions of the class:             *)
(*   - src/src/helm-chart.ts:22-127    (rev = "lenient")                   *)
(*   - src/src/helm-chart.ts:204-313   (rev = "strict")                    *)
(* An object map is [data, nested]: data is the record of its scalar keys, *)
(* nested says whether it holds the key whose value is the list that       *)
(* yaml.parse built (keywords); every shallow copy of the map refers to    *)
(* that one list, whose content is hc.nest.                                *)
(***************************************************************************)
MaxCharts == 3
MaxMaps == 1

DAddr == 1..(MaxCharts + MaxMaps)

Revs == {"lenient", "strict"}

MkObj(data, nested) == [data |-> data, nested |-> nested]

NoObj == MkObj(NoFields, FALSE)

\* Chart.yaml on disk: kind is "absent", "garbage", "empty", "scalar", "list"
\* or "map".
MkYaml(kind, data, nested) == [kind |-> kind, data |-> data, nested |-> nested]

EmptyString == <<"">>

\* helm-chart.ts:31-48. Spreading null, a scalar or a list gives a map
\* without name, version and apiVersion.
FromLenient(y) ==
    IF y.kind = "absent" THEN [err |-> "ENOENT", obj |-> NoObj]
    ELSE IF y.kind = "garbage" THEN [err |-> "YAMLParseError", obj |-> NoObj]
    ELSE IF y.kind # "map"
    THEN [err |-> "none", obj |-> MkObj([NoFields EXCEPT !.name = ""], FALSE)]
    ELSE [err |-> "none",
          obj |-> MkObj([y.data EXCEPT
                            !.name = IF Present("name", y.data.name)
                                     THEN StringOf(y.data.name) ELSE "",
                            !.version = IF Present("version", y.data.version)
                                        THEN StringOfVer(y.data.version) ELSE NoVer,
                            !.apiVersion = IF Present("apiVersion", y.data.apiVersion)
                                           THEN StringOf(y.data.apiVersion) ELSE UndefStr],
                        y.nested)]

\* helm-chart.ts:222-235
FromStrict(y) ==
    IF y.kind = "absent" THEN [err |-> "ENOENT", obj |-> NoObj]
    ELSE IF y.kind = "garbage" THEN [err |-> "YAMLParseError", obj |-> NoObj]
    ELSE IF \/ y.kind # "map"
            \/ ~Present("name", y.data.name) \/ IsNumTok(y.data.name)
            \/ ~IsStringVer(y.data.version)
    THEN [err |-> "Invalid Chart.yaml", obj |-> NoObj]
    ELSE [err |-> "none", obj |-> MkObj(y.data, y.nested)]

from(r, y) == IF r = "lenient" THEN FromLenient(y) ELSE FromStrict(y)

\* helm-chart.ts:95-98 and 253-259: the map of the new chart, or the error.
withVersion(r, obj, v) ==
    IF r = "strict" /\ v = EmptyString
    THEN [err |-> "Version must be non-empty", obj |-> NoObj]
    ELSE [err |-> "none", obj |-> [obj EXCEPT !.data.version = v]]

\* The new chart's map written over the receiver's.
WithVersionInPlace(at, fresh) == at

\* The object withVersion writes the new chart's map into: a new object
\* ({ ...this.data, version }, copied once more by the constructor).
WithVersionAddr(at, fresh) == fresh

\* raw() handing out the chart's own map.
RawInternal(at, fresh) == at

\* The object raw() returns: a new one ({ ...this.data }, helm-chart.ts:116-118).
RawAddr(at, fresh) == fresh

\* yaml.stringify(this.data): the scalar keys, and the list when the map
\* holds it (helm-chart.ts:124-126, 280-282).
toYAML(obj, nest) == <<obj.data, IF obj.nested THEN nest ELSE "absent">>

\* What a caller sees of a chart: name(), version(), raw() compared by value
\* as the tests compare it, and toYAML().
Observe(obj, nest) ==
    [name |-> name(obj.data), version |-> version(obj.data),
     raw |-> <<obj.data, IF obj.nested THEN nest ELSE "absent">>,
     yaml |-> toYAML(obj, nest)]

\* The same without looking into the list.
ObserveKeys(obs) ==
    [name |-> obs.name, version |-> obs.version, raw |-> obs.raw[1],
     nested |-> obs.raw[2] # "absent"]

NoChartOp == [op |-> "init", err |-> "none", recv |-> 0, v |-> NoVer, how |-> "none",
              before |-> <<>>]

\* A saveTo that writes the keys the class reads and no other.
SaveToKnownKeys(obj, nest) ==
    <<[NoFields EXCEPT !.apiVersion = obj.data.apiVersion, !.name = obj.data.name,
                       !.version = obj.data.version], "absent">>

\* saveTo: the text written is yaml.stringify(this.data)
\* (helm-chart.ts:106-110; 305-312 writes this.toYAML()).
saveTo(obj, nest) == toYAML(obj, nest)

\* No file written by saveTo.
NoSaved == <<NoFields, "absent">>

MkCharts(r, y) ==
    [rev |-> r, yaml |-> y, objs |-> [a \in DAddr |-> NoObj], used |-> 0,
     nest |-> "orig", charts |-> <<>>, held |-> <<>>, last |-> NoChartOp,
     args |-> <<>>, saved |-> NoSaved]

\* No Chart.yaml is looked at.
NoCharts == MkCharts("lenient", MkYaml("absent", NoFields, FALSE))

\* name(), version(), raw() and toYAML() of every chart instance.
ObserveAll(h) == [i \in 1..Len(h.charts) |-> Observe(h.objs[h.charts[i]], h.nest)]

(***************************************************************************)
(* Inputs of the model.                                                    *)
(***************************************************************************)
V100 == <<"1", "0", "0">>
V200 == <<"2", "0", "0">>
V1000 == <<"10", "0", "0">>
V10 == <<"1", "0">>
V999 == <<"9", "9", "9">>
V299 == <<"2", "9", "9">>

MkChart(n, v) == [NoFields EXCEPT !.apiVersion = "v2", !.name = n, !.version = v]

\* An entry as a file written earlier (by this program or by helm) holds it.
FileEntry(n, v, t) ==
    [NoFields EXCEPT !.apiVersion = "v2", !.name = n, !.version = v,
                     !.created = t, !.digest = "sha256:old",
                     !.urls = << <<n, ".tgz">> >>]

Single(n, list) == [m \in {n} |-> list]

OtherList == <<FileEntry("other", V999, 0), FileEntry("other", V100, 0)>>

\* index.yaml as a release may find it.
EmptyFile == MkFile("empty", UndefStr, NoTime, FALSE, FALSE, NoEntries)

OtherFile == MkFile("map", "v1", 0, FALSE, TRUE, Single("other", OtherList))

TwiceFile ==
    MkFile("map", "v1", 0, FALSE, TRUE,
           Single("app", <<FileEntry("app", V100, 0), FileEntry("app", V100, 0)>>))

NumberFile ==
    MkFile("map", "v1", 0, FALSE, TRUE, Single("app", <<FileEntry("app", <<"#2">>, 0)>>))

ForeignFile == MkFile("map", "v2", 0, TRUE, TRUE, Single("other", OtherList))

SeedFiles ==
    { AbsentFile,
      EmptyFile,
      MkFile("garbage", UndefStr, NoTime, FALSE, FALSE, NoEntries),
      MkFile("scalar", UndefStr, NoTime, FALSE, FALSE, NoEntries),
      MkFile("list", UndefStr, NoTime, FALSE, FALSE, NoEntries),
      \* a v1 document without an entries section, with another key
      MkFile("map", "v1", 0, TRUE, FALSE, NoEntries),
      \* a v1 document holding another chart
      OtherFile,
      \* a v1 document that lists a version of app twice
      TwiceFile,
      \* a v1 document whose version was written as a YAML number
      NumberFile,
      \* documents of a foreign schema
      ForeignFile,
      MkFile("map", UndefStr, NoTime, TRUE, TRUE, Single("other", OtherList)) }

\* An append call: the chart, the archive's bytes, baseUrl, the archive's
\* file name and the overrides.
Call(chart, bytes, baseUrl, filename, extra) ==
    [chart |-> chart, bytes |-> bytes, baseUrl |-> baseUrl,
     filename |-> filename, extra |-> extra]

RepoUrl == <<"https://repo.test/charts">>

Plain(chart) == Call(chart, "a", RepoUrl, "pkg.tgz", NoFields)

MergeCalls ==
    { Plain(MkChart("app", V100)), Plain(MkChart("app", V200)),
      Plain(MkChart("app", V1000)), Plain(MkChart("app", V10)),
      Plain(MkChart("other", V999)),
      \* overrides that name a version other than the chart's
      Call(MkChart("app", V100), "a", RepoUrl, "pkg.tgz",
           [NoFields EXCEPT !.version = V200]) }

(***************************************************************************)
(* The operations as actions.                                              *)
(***************************************************************************)
NoCall == Call(NoFields, Unreadable, <<>>, "", NoFields)

\* last: the operation, its error ("none" when it returned), and for an
\* append its call, the clock it read, the entry it built and whether the
\* same (name, version) had been appended since the index was obtained.
Op(op, err) ==
    [op |-> op, err |-> err, call |-> NoCall, t |-> NoTime, entry |-> NoFields,
     again |-> FALSE]

SetsVersion(extra) == Present("version", extra.version)

\* What pend and hist remember of an append.
Appended(c) == <<name(c.chart), version(c.chart), SetsVersion(c.extra)>>

HeapOf(a, entries) == [x \in Addr |-> IF x = a THEN entries ELSE NoEntries]

\* No file was read.
NoFile == MkFile("none", UndefStr, NoTime, FALSE, FALSE, NoEntries)

\* prov: while idx is the very index a fromFile returned, the file content
\* that fromFile read (NoFile otherwise: after empty(), an append or a
\* rewind) and whether that content had just been written by a fromFile ->
\* writeTo without an append; and the content of the file before the last
\* operation.
Prov(read, rt, before) == [from |-> read, rt |-> rt, before |-> before]

\* An append that saves the document it returns.
FileAfterAppendWritten(f, doc) == Stringify(doc)

\* The file after an append: append opens the index file nowhere
\* (helm-chart.ts:427-478, helm-index.ts:150-223).
FileAfterAppend(f, doc) == f

\* idx = HelmIndex.empty()
Empty ==
    /\ idx' = MkIndex(empty, 1)
    /\ heap' = HeapOf(1, empty.entries)
    /\ recv' = NoIndex
    /\ snap' = NoDoc
    /\ last' = Op("empty", "none")
    /\ cycle' = "none"
    /\ pend' = {}
    /\ prov' = Prov(NoFile, FALSE, file)
    /\ UNCHANGED <<impl, file, now, hist, nApp, hc, sh, vc, prep, pub, conc>>

\* idx = HelmIndex.fromFile(indexPath); an exception leaves the caller
\* without an index.
FromFile ==
    LET r == fromFile(impl, file)
    IN /\ idx' = IF r.err = "none" THEN MkIndex(r.doc, 1) ELSE NoIndex
       /\ heap' = HeapOf(1, r.doc.entries)
       /\ recv' = NoIndex
       /\ snap' = NoDoc
       /\ last' = Op("fromFile", r.err)
       /\ cycle' = IF r.err = "none" THEN "loaded" ELSE "none"
       /\ pend' = {}
       /\ prov' = IF r.err = "none"
                  THEN Prov(file, last.op = "writeTo" /\ prov.from.kind # "none", file)
                  ELSE Prov(NoFile, FALSE, file)
       /\ UNCHANGED <<impl, file, now, hist, nApp, hc, sh, vc, prep, pub, conc>>

\* idx = idx.append(chart, tgz, baseUrl, extra); an exception leaves the
\* caller with the receiver.
DoAppend(Calls) ==
    /\ idx.kind # "none"
    /\ nApp < MaxAppends
    /\ \E c \in Calls :
         LET this == DocOf(idx, heap)
             r == append(impl, this, c.chart, c.bytes, c.baseUrl, c.filename,
                         c.extra, now)
             a == ResultEntriesAddr(idx.ent)
         IN /\ recv' = idx
            /\ snap' = this
            /\ last' = [op |-> "append", err |-> r.err, call |-> c, t |-> now,
                        entry |-> r.entry,
                        again |-> \E p \in pend : p[1] = name(c.chart) /\ p[2] = version(c.chart)]
            /\ IF r.err = "none"
               THEN /\ idx' = MkIndex(r.doc, a)
                    /\ heap' = [heap EXCEPT ![a] = r.doc.entries]
                    /\ pend' = pend \cup {Appended(c)}
                    /\ prov' = Prov(NoFile, FALSE, file)
               ELSE /\ UNCHANGED <<idx, heap, pend>>
                    /\ prov' = [prov EXCEPT !.before = file]
            /\ file' = FileAfterAppend(file, r.doc)
    /\ nApp' = nApp + 1
    /\ UNCHANGED <<impl, now, cycle, hist, hc, sh, vc, prep, pub, conc>>

\* idx.writeTo(indexPath)
WriteTo ==
    /\ idx.kind # "none"
    /\ file' = Stringify(DocOf(idx, heap))
    /\ last' = Op("writeTo", "none")
    /\ cycle' = IF cycle = "none" THEN "none" ELSE "written"
    /\ hist' = IF cycle = "none" THEN {} ELSE hist \cup pend
    /\ prov' = [prov EXCEPT !.before = file]
    /\ UNCHANGED <<impl, heap, idx, recv, snap, now, pend, nApp, hc, sh, vc, prep, pub, conc>>

\* The caller goes on with the receiver of the last append instead of its
\* result.
Rewind ==
    /\ recv.kind # "none"
    /\ idx' = recv
    /\ heap' = HeapOf(recv.ent, heap[recv.ent])
    /\ recv' = NoIndex
    /\ snap' = NoDoc
    /\ last' = Op("rewind", "none")
    /\ cycle' = "none"
    /\ pend' = {}
    /\ prov' = Prov(NoFile, FALSE, file)
    /\ UNCHANGED <<impl, file, now, hist, nApp, hc, sh, vc, prep, pub, conc>>

\* Time passes.
Tick ==
    /\ now < MaxClock
    /\ now' = now + 1
    /\ UNCHANGED <<impl, file, heap, idx, recv, snap, last, cycle, pend, hist, nApp, prov,
                   hc, sh, vc, prep, pub, conc>>

InitWith(Files) ==
    /\ impl \in {"indexTs", "chartTs"}
    /\ file \in Files
    /\ heap = HeapOf(1, NoEntries)
    /\ idx = NoIndex
    /\ recv = NoIndex
    /\ snap = NoDoc
    /\ now = 1
    /\ last = Op("init", "none")
    /\ cycle = "none"
    /\ pend = {}
    /\ hist = {}
    /\ nApp = 0
    /\ prov = Prov(NoFile, FALSE, file)
    /\ hc = NoCharts
    /\ PluginIdle

\* index.yaml as the merge scenarios find it.
MergeFiles == {AbsentFile, OtherFile, TwiceFile, NumberFile, ForeignFile}

Init == InitWith(MergeFiles)

MergeAppend == DoAppend(MergeCalls)

Next ==
    \/ Empty
    \/ FromFile
    \/ MergeAppend
    \/ WriteTo
    \/ Rewind
    \/ Tick

Spec == Init /\ [][Next]_vars

(***************************************************************************)
(* The entry scenarios: one chart name, manifests and overrides that hold  *)
(* reserved keys, archives with different bytes, several base URLs.        *)
(***************************************************************************)
PlainChart == MkChart("app", V100)

\* A manifest that supplies created, digest and urls itself, a numeric
\* apiVersion and appVersion, and a description.
ForgedChart ==
    [NoFields EXCEPT !.apiVersion = "#2", !.name = "app", !.version = V100,
                     !.created = 0, !.digest = "forged",
                     !.urls = << <<"evil.tgz">> >>,
                     !.appVersion = "#42", !.description = "X"]

EntryCalls ==
    { Call(PlainChart, "a", RepoUrl, "pkg.tgz", NoFields),
      Call(PlainChart, "b", <<>>, "pkg.tgz", [NoFields EXCEPT !.description = "Y"]),
      Call(ForgedChart, "a", RepoUrl, "pkg.tgz", NoFields),
      \* publish (index.ts:601-611) passes the file name as urls
      Call(ForgedChart, "b", RepoUrl \o <<"/">>, "pkg.tgz",
           [NoFields EXCEPT !.urls = << <<"pkg.tgz">> >>, !.description = "Y"]),
      Call(PlainChart, "a", RepoUrl, "pkg.tgz",
           [NoFields EXCEPT !.name = "evil", !.apiVersion = "v9", !.created = 0,
                            !.digest = "forged"]),
      Call(PlainChart, "a", RepoUrl, "pkg.tgz", [NoFields EXCEPT !.version = V200]),
      Call(MkChart("app", V200), "a", RepoUrl, "pkg.tgz", NoFields),
      Call(PlainChart, Unreadable, RepoUrl, "pkg.tgz", NoFields),
      \* a manifest whose appVersion is a string
      Call([PlainChart EXCEPT !.appVersion = "1.2.3"], "a", RepoUrl, "pkg.tgz", NoFields) }

EntryFiles == {AbsentFile, EmptyFile}

InitEntry == InitWith(EntryFiles)

EntryAppend == DoAppend(EntryCalls)

NextEntry ==
    \/ Empty
    \/ FromFile
    \/ EntryAppend
    \/ WriteTo
    \/ Rewind
    \/ Tick

SpecEntry == InitEntry /\ [][NextEntry]_vars

(***************************************************************************)
(* The load scenarios: every kind of index.yaml, few appends.              *)
(***************************************************************************)
LoadCalls == { Plain(MkChart("app", V100)), Plain(MkChart("other", V999)) }

InitLoad == InitWith(SeedFiles)

LoadAppend == DoAppend(LoadCalls)

NextLoad ==
    \/ Empty
    \/ FromFile
    \/ LoadAppend
    \/ WriteTo
    \/ Rewind
    \/ Tick

SpecLoad == InitLoad /\ [][NextLoad]_vars

(***************************************************************************)
(* The chart scenarios: Chart.yaml of every kind, withVersion chains, maps *)
(* handed out by raw() and changed by the caller.                          *)
(***************************************************************************)
DemoData ==
    [NoFields EXCEPT !.apiVersion = "v2", !.name = "demo", !.version = V100,
                     !.description = "X"]

ChartFiles ==
    { MkYaml("absent", NoFields, FALSE),
      MkYaml("garbage", NoFields, FALSE),
      MkYaml("empty", NoFields, FALSE),
      MkYaml("scalar", NoFields, FALSE),
      MkYaml("list", NoFields, FALSE),
      \* the chart of the tests, with and without a keywords list
      MkYaml("map", DemoData, TRUE),
      MkYaml("map", DemoData, FALSE),
      \* no name key, name: "", name: 42
      MkYaml("map", [DemoData EXCEPT !.name = UndefStr], FALSE),
      MkYaml("map", [DemoData EXCEPT !.name = ""], FALSE),
      MkYaml("map", [DemoData EXCEPT !.name = "#42"], FALSE),
      \* version: 2, no version key
      MkYaml("map", [DemoData EXCEPT !.version = <<"#2">>], TRUE),
      MkYaml("map", [DemoData EXCEPT !.version = NoVer], FALSE) }

NewVersions == {V200, EmptyString}

\* What a caller does to a map it got from raw().
\* "set" assigns name and version, "delete" deletes description and keywords,
\* "push" adds an element to the keywords list.
Mutations == {"set", "delete", "push"}

MutateMap(obj, how) ==
    CASE how = "set" -> [obj EXCEPT !.data.name = "evil", !.data.version = V999]
      [] how = "delete" -> [obj EXCEPT !.data.description = UndefStr, !.nested = FALSE]
      [] OTHER -> obj

IndexVars == <<impl, file, heap, idx, recv, snap, now, last, cycle, pend, hist, nApp, prov>>

ChartOp(op, err, i, v, how, before) ==
    [op |-> op, err |-> err, recv |-> i, v |-> v, how |-> how, before |-> before]

\* chart = HelmChart.from(chartDir)
ChartFrom ==
    /\ hc.charts = <<>>
    /\ LET r == from(hc.rev, hc.yaml)
       IN hc' = IF r.err = "none"
                THEN [hc EXCEPT !.objs[1] = r.obj, !.used = 1, !.charts = <<1>>,
                                !.args = <<NoVer>>,
                                !.last = ChartOp("from", "none", 0, NoVer, "none", <<>>)]
                ELSE [hc EXCEPT !.last = ChartOp("from", r.err, 0, NoVer, "none", <<>>)]
    /\ UNCHANGED <<IndexVars, PluginVars>>

\* next = chart.withVersion(v), on any chart obtained so far
ChartWithVersion ==
    /\ Len(hc.charts) < MaxCharts
    /\ \E i \in 1..Len(hc.charts), v \in NewVersions :
         LET at == hc.charts[i]
             r == withVersion(hc.rev, hc.objs[at], v)
             a == WithVersionAddr(at, hc.used + 1)
         IN hc' = IF r.err = "none"
                  THEN [hc EXCEPT !.objs[a] = r.obj, !.used = @ + 1,
                                  !.charts = Append(@, a),
                                  !.args = Append(@, v),
                                  !.last = ChartOp("withVersion", "none", i, v, "none",
                                                   ObserveAll(hc))]
                  ELSE [hc EXCEPT !.last = ChartOp("withVersion", r.err, i, v, "none",
                                                   ObserveAll(hc))]
    /\ UNCHANGED <<IndexVars, PluginVars>>

\* m = chart.raw(); the strict revision has no raw().
ChartRaw ==
    /\ hc.rev = "lenient"
    /\ Len(hc.held) < MaxMaps
    /\ \E i \in 1..Len(hc.charts) :
         LET at == hc.charts[i]
             a == RawAddr(at, hc.used + 1)
         IN hc' = [hc EXCEPT !.objs[a] = hc.objs[at], !.used = @ + 1,
                             !.held = Append(@, a),
                             !.last = ChartOp("raw", "none", i, NoVer, "none",
                                              ObserveAll(hc))]
    /\ UNCHANGED <<IndexVars, PluginVars>>

\* The caller assigns or deletes a key of a map it holds, or pushes onto the
\* list the map holds.
ChartMutate ==
    /\ \E m \in 1..Len(hc.held), how \in Mutations :
         LET a == hc.held[m]
         IN /\ how = "push" => hc.objs[a].nested
            /\ hc' = [hc EXCEPT !.objs[a] = MutateMap(@, how),
                                !.nest = IF how = "push" THEN "changed" ELSE @,
                                !.last = ChartOp("mutate", "none", m, NoVer, how,
                                                 ObserveAll(hc))]
    /\ UNCHANGED <<IndexVars, PluginVars>>

\* chart.saveTo(filePath), on any chart obtained so far
ChartSaveTo ==
    /\ \E i \in 1..Len(hc.charts) :
         hc' = [hc EXCEPT !.saved = saveTo(hc.objs[hc.charts[i]], hc.nest),
                          !.last = ChartOp("saveTo", "none", i, hc.args[i], "none",
                                           ObserveAll(hc))]
    /\ UNCHANGED <<IndexVars, PluginVars>>

InitChart ==
    /\ impl = "indexTs"
    /\ file = AbsentFile
    /\ heap = HeapOf(1, NoEntries)
    /\ idx = NoIndex
    /\ recv = NoIndex
    /\ snap = NoDoc
    /\ now = 1
    /\ last = Op("init", "none")
    /\ cycle = "none"
    /\ pend = {}
    /\ hist = {}
    /\ nApp = 0
    /\ prov = Prov(NoFile, FALSE, file)
    /\ \E r \in Revs, y \in ChartFiles : hc = MkCharts(r, y)
    /\ PluginIdle

NextChart ==
    \/ ChartFrom
    \/ ChartWithVersion
    \/ ChartRaw
    \/ ChartMutate

SpecChart == InitChart /\ [][NextChart]_vars

\* The round trips: a chart is loaded, given new versions and saved.
NextSave ==
    \/ ChartFrom
    \/ ChartWithVersion
    \/ ChartSaveTo

SpecSave == InitChart /\ [][NextSave]_vars

(***************************************************************************)
(* runHostCmd. The repository holds it in command-runner.ts:23-91          *)
(* (runner = "commandRunner") and in index.ts:111-142 (runner = "indexTs");*)
(* index.ts:695-745 and 1033-1063 log as index.ts:111-142 does.            *)
(* A text is a sequence of tokens, " " being white space; a log line is a  *)
(* text.                                                                   *)
(***************************************************************************)
\* A property of the error object: undefined, a string or a Buffer.
Undef == [t |-> "undefined", s |-> <<>>]

Str(s) == [t |-> "string", s |-> s]

Buf(s) == [t |-> "buffer", s |-> s]

\* What execSync does: it returns the command's stdout or throws.
ExecOk(stdout) == [kind |-> "ok", stdout |-> stdout, err |-> [type |-> "none"]]

ExecThrow(e) == [kind |-> "throw", stdout |-> <<>>, err |-> e]

ErrObject(stdout, stderr, message) ==
    [type |-> "object", stdout |-> stdout, stderr |-> stderr, message |-> message]

PromptLine(c) == <<"$ ">> \o c

NoOutputLine == <<"(no output)">>

FailedLine(c) == <<"Command failed: ">> \o c

\* The outcome of a call: both log channels, and the value returned or the
\* value thrown.
Ran(log, error, outcome, value, thrown) ==
    [log |-> log, error |-> error, outcome |-> outcome, value |-> value,
     thrown |-> thrown]

\* command-runner.ts:28-38; Buffer.isBuffer(x) ? x.toString('utf8')
\* : String(x ?? '') of index.ts:130-135 on the same values.
StreamText(v) == IF v.t = "undefined" THEN <<>> ELSE v.s

\* command-runner.ts:65-82: the trimmed text, or the text itself when it is
\* white space only.
StreamLinesRunner(text) ==
    IF Len(Trim(text)) > 0 THEN <<Trim(text)>>
    ELSE IF Len(text) > 0 THEN <<text>> ELSE <<>>

\* index.ts:136-137: if (out.trim()) logger.error(out.trim())
StreamLinesIndexTs(text) == IF Len(Trim(text)) > 0 THEN <<Trim(text)>> ELSE <<>>

\* command-runner.ts:84-86, index.ts:138
MessageLines(m) == IF m.t = "string" /\ Len(m.s) > 0 THEN <<m.s>> ELSE <<>>

\* What the catch block logs after "Command failed".
CaughtLines(r, e) ==
    IF e.type # "object" THEN <<>>
    ELSE IF r = "commandRunner"
    THEN StreamLinesRunner(StreamText(e.stdout))
           \o StreamLinesRunner(StreamText(e.stderr)) \o MessageLines(e.message)
    ELSE StreamLinesIndexTs(StreamText(e.stdout))
           \o StreamLinesIndexTs(StreamText(e.stderr)) \o MessageLines(e.message)

\* A runHostCmd that logs the failure and returns the empty string.
RunHostCmdSwallowing(r, c, exec) ==
    IF exec.kind = "ok"
    THEN LET trimmed == Trim(exec.stdout)
         IN Ran(<<PromptLine(c), IF Len(trimmed) > 0 THEN trimmed ELSE NoOutputLine>>,
                <<>>, "return", trimmed, [type |-> "none"])
    ELSE Ran(<<PromptLine(c)>>, <<FailedLine(c)>> \o CaughtLines(r, exec.err),
             "return", <<>>, [type |-> "none"])

\* command-runner.ts:23-91, index.ts:111-142
runHostCmd(r, c, exec) ==
    IF exec.kind = "ok"
    THEN LET trimmed == Trim(exec.stdout)
         IN Ran(<<PromptLine(c), IF Len(trimmed) > 0 THEN trimmed ELSE NoOutputLine>>,
                <<>>, "return", trimmed, [type |-> "none"])
    ELSE Ran(<<PromptLine(c)>>, <<FailedLine(c)>> \o CaughtLines(r, exec.err),
             "throw", <<>>, exec.err)

\* The command of the scenarios.
GitPush == <<"git", " ", "push">>

IndexIdle ==
    /\ impl = "indexTs"
    /\ file = AbsentFile
    /\ heap = HeapOf(1, NoEntries)
    /\ idx = NoIndex
    /\ recv = NoIndex
    /\ snap = NoDoc
    /\ now = 1
    /\ last = Op("init", "none")
    /\ cycle = "none"
    /\ pend = {}
    /\ hist = {}
    /\ nApp = 0
    /\ prov = Prov(NoFile, FALSE, file)
    /\ hc = NoCharts

\* The command prints nothing, white space or text; what it throws is null,
\* a primitive, or an error object whose stdout and stderr are undefined,
\* strings or Buffers.
InitCmd ==
    /\ IndexIdle
    /\ LET Texts(word) == {<<>>, <<" ">>, <<word>>, <<" ", word, " ">>}
           Streams(word) == {Undef, Buf(<<word, " ">>)} \cup {Str(t) : t \in Texts(word)}
           Messages == {Undef, Str(<<>>), Str(<<"boom">>)}
           Execs ==
               {ExecOk(t) : t \in Texts("out")}
                 \cup {ExecThrow([type |-> "null"]), ExecThrow([type |-> "string"])}
                 \cup {ExecThrow(ErrObject(o, e, m)) :
                           o \in Streams("out"), e \in Streams("err"), m \in Messages}
       IN \E r \in {"commandRunner", "indexTs"}, x \in Execs :
            sh = [pc |-> "ready", runner |-> r, cmd |-> GitPush, exec |-> x,
                  ran |-> Ran(<<>>, <<>>, "none", <<>>, [type |-> "none"])]
    /\ vc = Idle
    /\ prep = Idle
    /\ pub = Idle
    /\ conc = Idle

\* runHostCmd(cmd, cwd, logger)
RunHostCmd ==
    /\ sh.pc = "ready"
    /\ sh' = [sh EXCEPT !.pc = "done", !.ran = runHostCmd(sh.runner, sh.cmd, sh.exec)]
    /\ UNCHANGED <<IndexVars, hc, vc, prep, pub, conc>>

NextCmd == RunHostCmd

SpecCmd == InitCmd /\ [][NextCmd]_vars

(***************************************************************************)
(* verifyConditions (index.ts:296-359) and the credentials it resolves     *)
(* (resolveCreds, index.ts:270-279; HelmConfig.getOciUsername,             *)
(* getOciPassword, hasOciUser, hasOciPass of part_004:251-280).            *)
(* A configuration value or environment variable is Undef, Null or Str(s). *)
(***************************************************************************)
Null == [t |-> "null", s |-> <<>>]

\* !!v of a value that is undefined, null or a string
Truthy(v) == v.t = "string" /\ Len(v.s) > 0

\* a ?? b
Coalesce(a, b) == IF a.t \in {"undefined", "null"} THEN b ELSE a

\* a || b: resolveCreds falling back to the environment for every falsy
\* configuration value.
ResolveCredsOr(cfg, env) ==
    LET username == IF Truthy(cfg.ociUsername) THEN cfg.ociUsername ELSE env.OCI_USERNAME
        password == IF Truthy(cfg.ociPassword) THEN cfg.ociPassword ELSE env.OCI_PASSWORD
    IN [username |-> username, password |-> password,
        haveUser |-> Truthy(username), havePass |-> Truthy(password)]

\* index.ts:270-279
resolveCreds(cfg, env) ==
    LET username == Coalesce(cfg.ociUsername, env.OCI_USERNAME)
        password == Coalesce(cfg.ociPassword, env.OCI_PASSWORD)
    IN [username |-> username, password |-> password,
        haveUser |-> Truthy(username), havePass |-> Truthy(password)]

\* index.ts:296-359: the code of the SemanticReleaseError thrown, or "ok".
verifyConditions(cfg, env, host) ==
    IF ~host.docker THEN "ENODOCKER"
    ELSE IF ~host.helmImage \/ ~host.docsImage THEN "EIMAGEPULLFAILED"
    ELSE IF ~host.chartYaml THEN "EMISSINGCHARTYAML"
    ELSE IF Truthy(cfg.ociRepo)
    THEN LET c == resolveCreds(cfg, env)
         IN IF (c.haveUser /\ ~c.havePass) \/ (~c.haveUser /\ c.havePass)
            THEN "EOCICREDSINCOMPLETE" ELSE "ok"
    ELSE "ok"

\* The host verifyConditions runs on: whether `docker version` succeeds,
\* whether each image can be pulled, whether Chart.yaml exists; at most one
\* of them fails.
InitVerify ==
    /\ IndexIdle
    /\ LET OciRepos == {Undef, Str(<<>>), Str(<<"oci://ghcr.io/x/y">>)}
           ConfigCreds == {Undef, Null, Str(<<>>), Str(<<"cfg">>)}
           EnvCreds == {Undef, Str(<<>>), Str(<<"env">>)}
           Configs ==
               {[ociRepo |-> r, ociUsername |-> u, ociPassword |-> p] :
                   r \in OciRepos, u \in ConfigCreds, p \in ConfigCreds}
           Envs ==
               {[OCI_USERNAME |-> u, OCI_PASSWORD |-> p] :
                   u \in EnvCreds, p \in EnvCreds}
           Host(docker, helmImage, docsImage, chartYaml) ==
               [docker |-> docker, helmImage |-> helmImage, docsImage |-> docsImage,
                chartYaml |-> chartYaml]
           Hosts ==
               {Host(TRUE, TRUE, TRUE, TRUE), Host(FALSE, TRUE, TRUE, TRUE),
                Host(TRUE, FALSE, TRUE, TRUE), Host(TRUE, TRUE, FALSE, TRUE),
                Host(TRUE, TRUE, TRUE, FALSE)}
       IN \E c \in Configs, e \in Envs, h \in Hosts :
            vc = [pc |-> "ready", cfg |-> c, env |-> e, host |-> h, result |-> "none"]
    /\ sh = Idle
    /\ prep = Idle
    /\ pub = Idle
    /\ conc = Idle

\* await verifyConditions(pluginConfig, context)
VerifyConditions ==
    /\ vc.pc = "ready"
    /\ vc' = [vc EXCEPT !.pc = "done",
                        !.result = verifyConditions(vc.cfg, vc.env, vc.host)]
    /\ UNCHANGED <<IndexVars, hc, sh, prep, pub, conc>>

NextVerify == VerifyConditions

SpecVerify == InitVerify /\ [][NextVerify]_vars

(***************************************************************************)
(* prepare (index.ts:377-445). Every command prepare runs is a step of its *)
(* own; whether a command succeeds is an input. Chart.yaml is absent,      *)
(* unparsable, or a map of which the version is kept; dist/charts is       *)
(* missing or holds the archives named by their versions.                  *)
(***************************************************************************)
ChartYamlFile(kind, ver) == [kind |-> kind, version |-> ver]

DistCharts(exists, archives) == [exists |-> exists, archives |-> archives]

PrepareFails(p, code) == [p EXCEPT !.pc = "failed", !.result = code]

\* setChartVersion (index.ts:243-247): { ...parsed, version }
setChartVersion(y, v) == [y EXCEPT !.version = v]

\* A prepare that creates dist/charts before it looks at its inputs.
PrepareBeginMkdirFirst(p) ==
    LET q == [p EXCEPT !.dist.exists = TRUE]
    IN IF ~Truthy(q.version) THEN PrepareFails(q, "ENOVERSION")
       ELSE IF q.chartYaml.kind = "absent" THEN PrepareFails(q, "EMISSINGCHARTYAML")
       ELSE IF q.chartYaml.kind = "garbage" THEN PrepareFails(q, "YAMLParseError")
       ELSE [q EXCEPT !.chartYaml = setChartVersion(@, q.version.s),
                      !.trace = Append(@, "version"), !.pc = "lint"]

\* index.ts:384-405: the two checks, then Chart.yaml is rewritten.
PrepareBegin(p) ==
    IF ~Truthy(p.version) THEN PrepareFails(p, "ENOVERSION")
    ELSE IF p.chartYaml.kind = "absent" THEN PrepareFails(p, "EMISSINGCHARTYAML")
    ELSE IF p.chartYaml.kind = "garbage" THEN PrepareFails(p, "YAMLParseError")
    ELSE [p EXCEPT !.chartYaml = setChartVersion(@, p.version.s),
                   !.trace = Append(@, "version"), !.pc = "lint"]

\* index.ts:407-408: runDockerCmd rethrows what the command throws.
PrepareLint(p) ==
    LET q == [p EXCEPT !.trace = Append(@, "lint")]
    IN IF p.cmds.lint THEN [q EXCEPT !.pc = "template"] ELSE PrepareFails(q, "lint failed")

\* index.ts:409-414
PrepareTemplate(p) ==
    LET q == [p EXCEPT !.trace = Append(@, "template")]
    IN IF p.cmds.template THEN [q EXCEPT !.pc = "docs"]
       ELSE PrepareFails(q, "template failed")

\* A helm-docs step whose failure ends prepare.
PrepareDocsRethrowing(p) ==
    LET q == [p EXCEPT !.trace = Append(@, "helm-docs")]
    IN IF p.cmds.docs THEN [q EXCEPT !.pc = "package"]
       ELSE PrepareFails(q, "helm-docs failed")

\* index.ts:416-430: the catch block logs and goes on.
PrepareDocs(p) == [p EXCEPT !.trace = Append(@, "helm-docs"), !.pc = "package"]

\* index.ts:432-442: dist/charts is created when missing, then helm package
\* writes the archive of the chart's version into it.
PreparePackage(p) ==
    LET q == [p EXCEPT !.trace = Append(@, "package"), !.dist.exists = TRUE]
    IN IF p.cmds.package
       THEN [q EXCEPT !.dist.archives = @ \cup {p.chartYaml.version},
                      !.pc = "done", !.result = "ok"]
       ELSE PrepareFails(q, "package failed")

\* context.nextRelease.version, Chart.yaml, dist/charts, and whether helm
\* lint, helm template, helm-docs and helm package succeed.
InitPrepare ==
    /\ IndexIdle
    /\ LET NextVersions == {Undef, Str(<<>>), Str(V200)}
           ChartYamls ==
               {ChartYamlFile("absent", NoVer), ChartYamlFile("garbage", NoVer),
                ChartYamlFile("map", V100)}
           Dists == {DistCharts(FALSE, {}), DistCharts(TRUE, {}), DistCharts(TRUE, {V100})}
           CommandOutcomes ==
               {[lint |-> l, template |-> t, docs |-> d, package |-> k] :
                   l \in BOOLEAN, t \in BOOLEAN, d \in BOOLEAN, k \in BOOLEAN}
       IN \E v \in NextVersions, y \in ChartYamls, d \in Dists, c \in CommandOutcomes :
            prep = [pc |-> "begin", version |-> v, chartYaml |-> y, dist |-> d,
                    cmds |-> c, trace |-> <<>>, result |-> "none",
                    was |-> [chartYaml |-> y, dist |-> d]]
    /\ sh = Idle
    /\ vc = Idle
    /\ pub = Idle
    /\ conc = Idle

PrepareStep(pc, step) ==
    /\ prep.pc = pc
    /\ prep' = step
    /\ UNCHANGED <<IndexVars, hc, sh, vc, pub, conc>>

Begin == PrepareStep("begin", PrepareBegin(prep))

Lint == PrepareStep("lint", PrepareLint(prep))

Template == PrepareStep("template", PrepareTemplate(prep))

Docs == PrepareStep("docs", PrepareDocs(prep))

Package == PrepareStep("package", PreparePackage(prep))

NextPrepare ==
    \/ Begin
    \/ Lint
    \/ Template
    \/ Docs
    \/ Package

SpecPrepare == InitPrepare /\ [][NextPrepare]_vars

(***************************************************************************)
(* publish (index.ts:475-648). Every command publish runs is a step of its *)
(* own. A branch is the sequence of the trees of its commits, oldest       *)
(* first, and <<>> when the branch does not exist; a tree is the           *)
(* index.yaml and the archives of the charts directory. A push is a        *)
(* fast-forward when the remote branch is a prefix of the pushed one.      *)
(* index.ts:964-997 and 1326-1395 hold revisions of publish that have no   *)
(* gh-pages mode.                                                          *)
(* pub.tmp is what lies at .gh-pages-tmp: "none", a plain directory        *)
(* ("dir") or a registered worktree ("worktree"). pub.effects lists the    *)
(* steps that were carried out, in their order.                            *)
(***************************************************************************)
MaxOtherPushes == 1
MaxRuns == 2

Tree(index, archives) == [index |-> index, archives |-> archives]

\* The tree after `git switch --orphan` and `git reset --hard`.
EmptyTree == Tree(AbsentFile, {})

NoBranch == <<>>

Tip(branch) == IF branch = NoBranch THEN EmptyTree ELSE branch[Len(branch)]

\* git commit, or "No changes" when the tree is the tip's.
Commit(branch, tree) ==
    IF branch # NoBranch /\ Tip(branch) = tree THEN branch ELSE Append(branch, tree)

\* The remote accepts a push that creates the branch or fast-forwards it.
CanFastForward(remote, pushed) ==
    /\ Len(remote) <= Len(pushed)
    /\ SubSeq(pushed, 1, Len(remote)) = remote

\* An entry of dist/charts: tgz says d.isFile() && d.name.endsWith('.tgz').
DistFile(filename, tgz, bytes) == [filename |-> filename, tgz |-> tgz, bytes |-> bytes]

\* index.ts:482-488
PackagedFiles(dist) ==
    LET IsTgz(d) == d.tgz
    IN IF dist.exists THEN SelectSeq(dist.listing, IsTgz) ELSE <<>>

\* index.ts:601-604: the overrides carry the bare file name unless ghPages.url
\* is a non-blank string.
ExtraFor(url, filename) ==
    IF url.t = "string" /\ Len(Trim(url.s)) > 0 THEN NoFields
    ELSE [NoFields EXCEPT !.urls = << <<filename>> >>]

\* index.ts:609: typeof baseUrl === 'string' ? baseUrl : ''
BaseUrlArg(url) == IF url.t = "string" THEN url.s ELSE <<>>

\* index.ts:597-612: the chart is appended once for every packaged file.
RECURSIVE AppendAll(_, _, _, _, _, _)
AppendAll(i, doc, files, chart, url, t) ==
    IF files = <<>> THEN Ok(doc)
    ELSE LET f == Head(files)
             r == append(i, doc, chart, f.bytes, BaseUrlArg(url), f.filename,
                         ExtraFor(url, f.filename), t)
         IN IF r.err # "none" THEN Throw(r.err)
            ELSE AppendAll(i, r.doc, Tail(files), chart, url, t)

\* index.ts:594-614: fromFile, the merge loop; the document writeTo writes.
MergedIndex(i, index, files, chart, url, t) ==
    LET loaded == fromFile(i, index)
    IN IF loaded.err # "none" THEN loaded
       ELSE AppendAll(i, loaded.doc, files, chart, url, t)

\* The worktree taken from the local branch before the remote one.
WorktreeFromLocalFirst(tracking, local) ==
    IF local # NoBranch THEN "local"
    ELSE IF tracking # NoBranch THEN "remote" ELSE "orphan"

\* index.ts:564-583: refRemoteCheck && addFromRemote
\*                   || (refCheck && addExisting || addOrphan)
WorktreeFrom(tracking, local) ==
    IF tracking # NoBranch THEN "remote"
    ELSE IF local # NoBranch THEN "local" ELSE "orphan"

PublishFails(p, code) == [p EXCEPT !.pc = "failed", !.result = code]

Effect(p, e) == [p EXCEPT !.effects = Append(@, e)]

\* A publish that goes on without a packaged chart.
PublishListUnchecked(p) ==
    IF p.cfg.oci THEN [p EXCEPT !.pc = "oci"]
    ELSE IF p.cfg.gh THEN [p EXCEPT !.pc = "fetch"]
    ELSE [p EXCEPT !.pc = "done", !.result = "ok"]

\* index.ts:482-497, and the mode tests of 499 and 540-541
PublishList(p) ==
    IF PackagedFiles(p.dist) = <<>> THEN PublishFails(p, "ENOPACKAGEDCHART")
    ELSE IF p.cfg.oci THEN [p EXCEPT !.pc = "oci"]
    ELSE IF p.cfg.gh THEN [p EXCEPT !.pc = "fetch"]
    ELSE [p EXCEPT !.pc = "done", !.result = "ok"]

\* index.ts:499-536: one shell script logs in when both credentials are
\* there and pushes every packaged file.
PublishOci(p) ==
    LET q == Effect(IF p.cfg.creds THEN Effect(p, "registry login") ELSE p, "helm push")
    IN IF ~p.cfg.ociOk THEN PublishFails(q, "helm push failed")
       ELSE IF p.cfg.gh THEN [q EXCEPT !.pc = "fetch"]
       ELSE [q EXCEPT !.pc = "done", !.result = "ok"]

\* A publish that fetches without clearing .gh-pages-tmp first.
PublishFetchUncleaned(p) ==
    [Effect(p, "git fetch") EXCEPT
        !.tracking = IF p.remote # NoBranch THEN p.remote ELSE @,
        !.pc = "add"]

\* index.ts:552-572: git worktree remove --force || echo, rm -rf of
\* .gh-pages-tmp, then git fetch <repo> <branch> || true
PublishFetch(p) ==
    [Effect(Effect(p, "cleanup"), "git fetch") EXCEPT
        !.tmp = "none",
        !.tracking = IF p.remote # NoBranch THEN p.remote ELSE @,
        !.pc = "add"]

\* index.ts:573-583: each of the three git worktree add commands fails when
\* the path exists, and runHostCmd throws.
PublishWorktreeAdd(p) ==
    LET src == WorktreeFrom(p.tracking, p.local)
    IN IF p.tmp # "none" THEN PublishFails(p, "worktree add failed")
       ELSE [Effect(p, "git worktree add") EXCEPT
                !.src = src,
                !.tmp = "worktree",
                !.hadRef = p.tracking # NoBranch,
                !.local = IF src = "remote" THEN p.tracking
                          ELSE IF src = "local" THEN @ ELSE NoBranch,
                !.work = IF src = "remote" THEN Tip(p.tracking)
                         ELSE IF src = "local" THEN Tip(p.local) ELSE EmptyTree,
                !.pc = "index"]

\* A publish that commits whatever the worktree holds when the merge of
\* index.yaml throws.
PublishIndexSwallowing(p) ==
    LET files == PackagedFiles(p.dist)
        names == {files[k].filename : k \in 1..Len(files)}
        q == [Effect(p, "copy") EXCEPT !.work.archives = @ \cup names]
        r == MergedIndex(p.impl, p.work.index, files, p.chart, p.cfg.url, p.t)
        appends == [k \in 1..Len(files) |-> "append"]
    IN IF r.err # "none" THEN [Effect(q, "load index.yaml") EXCEPT !.pc = "commit"]
       ELSE [q EXCEPT !.effects = @ \o <<"load index.yaml">> \o appends
                                     \o <<"write index.yaml">>,
                      !.work.index = Stringify(r.doc), !.pc = "commit"]

\* index.ts:585-614: the archives are copied, index.yaml is loaded, the
\* chart is appended for every packaged file and index.yaml is written. An
\* exception of fromFile or append ends publish before anything is written.
PublishIndex(p) ==
    LET files == PackagedFiles(p.dist)
        names == {files[k].filename : k \in 1..Len(files)}
        q == [Effect(p, "copy") EXCEPT !.work.archives = @ \cup names]
        r == MergedIndex(p.impl, p.work.index, files, p.chart, p.cfg.url, p.t)
        appends == [k \in 1..Len(files) |-> "append"]
    IN IF r.err # "none" THEN PublishFails(Effect(q, "load index.yaml"), r.err)
       ELSE [q EXCEPT !.effects = @ \o <<"load index.yaml">> \o appends
                                     \o <<"write index.yaml">>,
                      !.work.index = Stringify(r.doc), !.pc = "commit"]

\* index.ts:616-623: git add . and git commit ... || echo "No changes"
PublishCommit(p) ==
    [Effect(p, "git commit") EXCEPT !.local = Commit(@, p.work), !.pc = "push"]

\* index.ts:624-628: runHostCmd throws when the remote rejects the push.
PublishPush(p) ==
    LET q == Effect(p, "git push")
    IN IF CanFastForward(p.remote, p.local)
       THEN [q EXCEPT !.remote = p.local, !.tracking = p.local, !.pc = "remove"]
       ELSE PublishFails([q EXCEPT !.rejected = TRUE], "push rejected")

\* index.ts:630-644
PublishRemove(p) ==
    [Effect(p, "git worktree remove") EXCEPT
        !.tmp = "none", !.pc = "done", !.result = "ok"]

\* The release is chart app at version 10.0.0: its archive, the archive of
\* the release before it and a file that is no archive.
OwnArchive == DistFile("app-10.0.0.tgz", TRUE, "new")

StaleArchive == DistFile("app-2.0.0.tgz", TRUE, "old")

Readme == DistFile("README.md", FALSE, "txt")

Listing(l) == [exists |-> TRUE, listing |-> l]

\* index.yaml of a gh-pages branch as the tests seed it.
SeededFile == MkFile("map", "v1", NoTime, FALSE, TRUE, NoEntries)

\* dist/charts is missing or lists its names in the directory's order
\* (fs.readdirSync); index.yaml of the branch is the seed, another chart's
\* entries, an earlier release of the chart or text yaml.parse rejects;
\* ghPages.url is absent, blank or the URL of the repository; the
\* repository has the branch on the remote, locally, on both sides or
\* nowhere; .gh-pages-tmp is absent, a directory or a worktree.
InitPublish ==
    /\ IndexIdle
    /\ LET PublishDists ==
               {[exists |-> FALSE, listing |-> <<>>], Listing(<<>>), Listing(<<Readme>>),
                Listing(<<OwnArchive>>), Listing(<<OwnArchive, Readme>>),
                Listing(<<StaleArchive, OwnArchive>>),
                Listing(<<OwnArchive, StaleArchive>>)}
           EarlierFile ==
               MkFile("map", "v1", 0, FALSE, TRUE,
                      Single("app", <<FileEntry("app", V200, 0)>>))
           SeedIndexes ==
               {SeededFile, OtherFile, EarlierFile,
                MkFile("garbage", UndefStr, NoTime, FALSE, FALSE, NoEntries)}
           GhUrls == {Undef, Str(<<" ">>), Str(RepoUrl)}
           PublishConfigs ==
               {[oci |-> o, ociOk |-> k, creds |-> c, gh |-> g, url |-> u] :
                   o \in BOOLEAN, k \in BOOLEAN, c \in BOOLEAN, g \in BOOLEAN,
                   u \in GhUrls}
           Seeds ==
               {[seed |-> "none", remote |-> NoBranch, local |-> NoBranch]}
                 \cup {[seed |-> "remote", remote |-> <<Tree(f, {})>>,
                        local |-> NoBranch] : f \in SeedIndexes}
                 \cup {[seed |-> "local", remote |-> NoBranch,
                        local |-> <<Tree(f, {})>>] : f \in SeedIndexes}
                 \cup {[seed |-> "both", remote |-> <<Tree(f, {})>>,
                        local |-> <<Tree(SeededFile, {"local.tgz"})>>] :
                          f \in SeedIndexes}
       IN \E i \in {"indexTs", "chartTs"}, c \in PublishConfigs, d \in PublishDists,
             s \in Seeds, tmp \in {"none", "dir", "worktree"} :
            /\ ~c.oci => c.ociOk /\ ~c.creds
            /\ pub = [pc |-> "list", impl |-> i, cfg |-> c, dist |-> d,
                      chart |-> MkChart("app", V1000), t |-> 1, seed |-> s.seed,
                      remote |-> s.remote, tracking |-> NoBranch, local |-> s.local,
                      work |-> EmptyTree, src |-> "none", effects |-> <<>>,
                      result |-> "none", rejected |-> FALSE, others |-> 0,
                      hadRef |-> FALSE, tmp |-> tmp, run |-> 1, left |-> FALSE,
                      was |-> [remote |-> s.remote, local |-> s.local, tmp |-> tmp]]
    /\ sh = Idle
    /\ vc = Idle
    /\ prep = Idle
    /\ conc = Idle

PublishStep(pc, step) ==
    /\ pub.pc = pc
    /\ pub' = step
    /\ UNCHANGED <<IndexVars, hc, sh, vc, prep, conc>>

List == PublishStep("list", PublishList(pub))

Oci == PublishStep("oci", PublishOci(pub))

Fetch == PublishStep("fetch", PublishFetch(pub))

WorktreeAdd == PublishStep("add", PublishWorktreeAdd(pub))

Index == PublishStep("index", PublishIndex(pub))

CommitIndex == PublishStep("commit", PublishCommit(pub))

Push == PublishStep("push", PublishPush(pub))

Remove == PublishStep("remove", PublishRemove(pub))

NextPublish ==
    \/ List
    \/ Oci
    \/ Fetch
    \/ WorktreeAdd
    \/ Index
    \/ CommitIndex
    \/ Push
    \/ Remove

SpecPublish == InitPublish /\ [][NextPublish]_vars

\* Another publisher, working in a clone of its own, pushes a commit that
\* adds its chart to the branch.
OtherPush ==
    /\ pub.others < MaxOtherPushes
    /\ pub.pc \notin {"done", "failed"}
    /\ LET OtherTree(tree) ==
               Tree([SeededFile EXCEPT
                        !.entries = WithList(IF tree.index.kind = "map"
                                             THEN tree.index.entries ELSE NoEntries,
                                             "other", OtherList)],
                    tree.archives \cup {"other-9.9.9.tgz"})
       IN pub' = [pub EXCEPT !.remote = Append(@, OtherTree(Tip(@))), !.others = @ + 1]
    /\ UNCHANGED <<IndexVars, hc, sh, vc, prep, conc>>

NextPush ==
    \/ List
    \/ Oci
    \/ Fetch
    \/ WorktreeAdd
    \/ Index
    \/ CommitIndex
    \/ Push
    \/ Remove
    \/ OtherPush

SpecPush == InitPublish /\ [][NextPush]_vars

\* A later release runs publish again after a publish that failed; what the
\* failed one left in the repository and at .gh-pages-tmp is still there.
PublishAgain ==
    /\ pub.pc = "failed"
    /\ pub.run < MaxRuns
    /\ pub' = [pub EXCEPT !.pc = "list", !.run = @ + 1, !.left = pub.tmp = "worktree",
                          !.effects = <<>>, !.result = "none", !.src = "none",
                          !.hadRef = FALSE, !.rejected = FALSE,
                          !.was = [remote |-> pub.remote, local |-> pub.local,
                                   tmp |-> pub.tmp]]
    /\ UNCHANGED <<IndexVars, hc, sh, vc, prep, conc>>

NextRetry ==
    \/ List
    \/ Oci
    \/ Fetch
    \/ WorktreeAdd
    \/ Index
    \/ CommitIndex
    \/ Push
    \/ Remove
    \/ OtherPush
    \/ PublishAgain

SpecRetry == InitPublish /\ [][NextRetry]_vars

(***************************************************************************)
(* Two publishers on one index.yaml. Each runs HelmIndex.fromFile, append  *)
(* and writeTo (helm-chart.ts:399-489, helm-index.ts:116-259) as publish   *)
(* does (index.ts:594-614); nothing orders the steps of one against the    *)
(* steps of the other. conc.n counts the steps taken; a publisher keeps    *)
(* the count at which it loaded and at which it wrote.                     *)
(***************************************************************************)
Publishers == {1, 2}

\* A writeTo that reads the file again and keeps the entries it finds there
\* next to its own.
WrittenMerged(onDisk, doc) ==
    LET mine == doc.entries
        theirs == IF onDisk.kind = "map" THEN onDisk.entries ELSE NoEntries
    IN [Stringify(doc) EXCEPT
           !.entries =
               [n \in DOMAIN mine \cup DOMAIN theirs |->
                   IF n \notin DOMAIN mine THEN theirs[n]
                   ELSE LET Unseen(e) == \A k \in 1..Len(mine[n]) :
                                            mine[n][k].version # e.version
                        IN mine[n] \o SelectSeq(ListOf(theirs, n), Unseen)]]

\* writeTo (helm-chart.ts:486-489, helm-index.ts:236-259) writes the document
\* the instance holds over whatever the file holds by now.
Written(onDisk, doc) == Stringify(doc)

\* The first publisher releases app 1.0.0; the second releases app 2.0.0 or
\* another chart.
InitConc ==
    /\ IndexIdle
    /\ LET MkPublisher(call) ==
               [pc |-> "load", call |-> call, doc |-> NoDoc, entry |-> NoFields,
                err |-> "none", loadedAt |-> 0, wroteAt |-> 0]
           FirstRelease ==
               Call(MkChart("app", V100), "a", RepoUrl, "app-1.0.0.tgz", NoFields)
           SecondReleases ==
               {Call(MkChart("app", V200), "b", RepoUrl, "app-2.0.0.tgz", NoFields),
                Call(MkChart("web", V100), "c", RepoUrl, "web-1.0.0.tgz", NoFields)}
           SharedFiles == {AbsentFile, SeededFile, OtherFile}
       IN \E i \in {"indexTs", "chartTs"}, f \in SharedFiles, c \in SecondReleases :
            conc = [impl |-> i, file |-> f, n |-> 0,
                    procs |-> <<MkPublisher(FirstRelease), MkPublisher(c)>>]
    /\ sh = Idle
    /\ vc = Idle
    /\ prep = Idle
    /\ pub = Idle

\* indexDoc = HelmIndex.fromFile(indexPath)
ConcLoad(p) ==
    /\ conc.procs[p].pc = "load"
    /\ LET r == fromFile(conc.impl, conc.file)
       IN conc' = [conc EXCEPT
                      !.n = @ + 1,
                      !.procs[p].loadedAt = conc.n + 1,
                      !.procs[p].doc = r.doc,
                      !.procs[p].err = r.err,
                      !.procs[p].pc = IF r.err = "none" THEN "append" ELSE "failed"]
    /\ UNCHANGED <<IndexVars, hc, sh, vc, prep, pub>>

\* indexDoc = indexDoc.append(chart, tgz, baseUrl, extra)
ConcAppend(p) ==
    /\ conc.procs[p].pc = "append"
    /\ LET c == conc.procs[p].call
           r == append(conc.impl, conc.procs[p].doc, c.chart, c.bytes, c.baseUrl,
                       c.filename, c.extra, p)
       IN conc' = [conc EXCEPT
                      !.n = @ + 1,
                      !.procs[p].doc = r.doc,
                      !.procs[p].entry = r.entry,
                      !.procs[p].err = r.err,
                      !.procs[p].pc = IF r.err = "none" THEN "write" ELSE "failed"]
    /\ UNCHANGED <<IndexVars, hc, sh, vc, prep, pub>>

\* indexDoc.writeTo(indexPath)
ConcWrite(p) ==
    /\ conc.procs[p].pc = "write"
    /\ conc' = [conc EXCEPT
                   !.n = @ + 1,
                   !.file = Written(conc.file, conc.procs[p].doc),
                   !.procs[p].wroteAt = conc.n + 1,
                   !.procs[p].pc = "done"]
    /\ UNCHANGED <<IndexVars, hc, sh, vc, prep, pub>>

NextConc ==
    \/ \E p \in Publishers : ConcLoad(p)
    \/ \E p \in Publishers : ConcAppend(p)
    \/ \E p \in Publishers : ConcWrite(p)

SpecConc == InitConc /\ [][NextConc]_vars

(***************************************************************************)
(* README normalisation (part_005:37-81), which DockerHelmDocs.generate    *)
(* runs before helm-docs (part_005:106-113). A README is a sequence of     *)
(* tokens: "S" is <!-- render.chart.valuesTable -->, "s" the same marker   *)
(* with other spacing, "E" is <!-- end.chart.valuesTable -->, "T" is       *)
(* VALUES_TABLE_TEMPLATE, "\n" a line break and "x" any other text.        *)
(* prep holds the README step in these scenarios.                          *)
(***************************************************************************)
MaxReadme == 5

\* VALUES_TABLE_BLOCK_RE (part_005:38-45): a start marker, then as little
\* as possible up to an end marker. The index of that end marker, or 0.
BlockEnd(content, i) ==
    LET ends == {j \in (i + 1)..Len(content) : content[j] = "E"}
    IN IF content[i] \in {"S", "s"} /\ ends # {}
       THEN CHOOSE j \in ends : \A k \in ends : j <= k
       ELSE 0

\* content.replace(VALUES_TABLE_BLOCK_RE, ...) from position i on
\* (part_005:57-67): every block becomes its own markers around the
\* template, and changed is set for every block.
RECURSIVE ReplaceBlocks(_, _)
ReplaceBlocks(content, i) ==
    IF i > Len(content) THEN [updated |-> <<>>, changed |-> FALSE]
    ELSE IF BlockEnd(content, i) # 0
    THEN LET j == BlockEnd(content, i)
             rest == ReplaceBlocks(content, j + 1)
         IN [updated |-> <<content[i], "\n", "T", "\n", content[j]>> \o rest.updated,
             changed |-> TRUE]
    ELSE LET rest == ReplaceBlocks(content, i + 1)
         IN [updated |-> <<content[i]>> \o rest.updated, changed |-> rest.changed]

\* part_005:53-68
normalizeReadmeValuesTableContent(content) == ReplaceBlocks(content, 1)

\* part_005:73-81: the file afterwards, whether writeFileSync ran, and the
\* value returned.
normalizeReadmeValuesTableFile(readme) ==
    IF ~readme.exists THEN [readme |-> readme, wrote |-> FALSE, changed |-> FALSE]
    ELSE LET r == normalizeReadmeValuesTableContent(readme.content)
         IN [readme |-> IF r.changed THEN [readme EXCEPT !.content = r.updated]
                        ELSE readme,
             wrote |-> r.changed, changed |-> r.changed]

\* README.md is absent or any text of at most MaxReadme tokens.
InitReadme ==
    /\ IndexIdle
    /\ LET Tokens == {"S", "s", "E", "T", "\n", "x"}
           Texts == UNION {[1..n -> Tokens] : n \in 0..MaxReadme}
           Readmes ==
               {[exists |-> FALSE, content |-> <<>>]}
                 \cup {[exists |-> TRUE, content |-> t] : t \in Texts}
       IN \E f \in Readmes :
            prep = [pc |-> "readme", readme |-> f, original |-> f, wrote |-> FALSE,
                    changed |-> FALSE]
    /\ sh = Idle
    /\ vc = Idle
    /\ pub = Idle
    /\ conc = Idle

\* const { changed } = normalizeReadmeValuesTableFile(readmePath)
NormalizeReadme ==
    /\ prep.pc = "readme"
    /\ LET r == normalizeReadmeValuesTableFile(prep.readme)
       IN prep' = [prep EXCEPT !.pc = "normalized", !.readme = r.readme,
                               !.wrote = r.wrote, !.changed = r.changed]
    /\ UNCHANGED <<IndexVars, hc, sh, vc, pub, conc>>

NextReadme == NormalizeReadme

SpecReadme == InitReadme /\ [][NextReadme]_vars

(***************************************************************************)
(* The scenarios of unusual manifests: versions "1.0" and "1.0.0" of one   *)
(* chart, a manifest whose name is the empty string (what the lenient      *)
(* HelmChart.from makes of an absent name, helm-chart.ts:37-39, and what   *)
(* the strict one accepts, helm-chart.ts:227-232), a manifest whose        *)
(* version is the empty string or absent.                                  *)
(***************************************************************************)
InitOdd == InitWith({AbsentFile})

OddCalls ==
    { Plain(MkChart("app", V100)), Plain(MkChart("app", V10)),
      Plain(MkChart("", V100)), Plain(MkChart("app", EmptyString)),
      Plain(MkChart("app", NoVer)) }

OddAppend == DoAppend(OddCalls)

NextOdd ==
    \/ Empty
    \/ FromFile
    \/ OddAppend
    \/ WriteTo

SpecOdd == InitOdd /\ [][NextOdd]_vars

(***************************************************************************)
(* Properties.                                                             *)
(***************************************************************************)
Cur == DocOf(idx, heap)

AppendOk == last.op = "append" /\ last.err = "none"

Key == name(last.call.chart)

\* The list of the appended name before and after the last append.
OldList == ListOf(snap.entries, Key)

NewList == ListOf(Cur.entries, Key)

NoDupVersions(list) ==
    \A i, j \in 1..Len(list) : i # j => list[i].version # list[j].version

CountVersion(list, v) == Cardinality({i \in 1..Len(list) : list[i].version = v})

AllAppended(list) ==
    /\ \A p \in pend : ~p[3]
    /\ \A i \in 1..Len(list) : \E p \in pend : p[1] = Key /\ p[2] = list[i].version

StrictlyDescending(list) ==
    \A i \in 1..(Len(list) - 1) :
        CompareVersions(list[i].version, list[i + 1].version) < 0

\* C3 as stated: after appends of pairwise distinct versions of one name, in
\* any order, the list of that name is sorted strictly descending by
\* dot-segment numeric comparison.
C3_SortedStrictlyDescending ==
    (AppendOk /\ AllAppended(NewList) /\ NoDupVersions(NewList))
        => StrictlyDescending(NewList)

\* C4: an append for name N leaves the list of every other name as it was,
\* and adds no other name.
C4_OtherNamesUntouched ==
    AppendOk =>
        /\ DOMAIN Cur.entries = DOMAIN snap.entries \cup {Key}
        /\ \A m \in DOMAIN snap.entries \ {Key} : Cur.entries[m] = snap.entries[m]

\* C4 witness: an append to a name that already has a list, in an index that
\* holds another name with several entries.
C4_Witness ==
    /\ AppendOk
    /\ OldList # <<>>
    /\ \E m \in DOMAIN snap.entries : m # Key /\ Len(snap.entries[m]) >= 2

\* C6: append does not mutate its receiver: the document the receiver
\* serializes is the one it serialized when the call began.
C6_ReceiverNotMutated == recv.kind # "none" => DocOf(recv, heap) = snap

\* C6 witness: an append changed the list of a name its receiver already
\* held, and returned.
C6_Witness ==
    /\ AppendOk
    /\ recv.kind = "map"
    /\ OldList # <<>>
    /\ NewList # OldList

Occurs(list, e) == Cardinality({i \in 1..Len(list) : list[i] = e})

\* The file just written by a fromFile -> append -> writeTo cycle.
CycleWritten == last.op = "writeTo" /\ cycle = "written"

\* The file holds one entry for every (name, version) of ps.
FileHoldsEach(ps) ==
    \A p \in ps : CountVersion(ListOf(file.entries, p[1]), p[2]) = 1

\* The last append kept every entry of its name whose version string is not
\* the chart's.
KeptOtherVersions ==
    \A i \in 1..Len(OldList) :
        OldList[i].version # version(last.call.chart)
            => Occurs(NewList, OldList[i]) >= Occurs(OldList, OldList[i])

\* C5 as stated: the file a cycle writes holds one entry for every (name,
\* version) an earlier cycle appended, and an append removes nothing but the
\* entry of exactly its name and version.
C5_HistoryAccumulates ==
    /\ CycleWritten => FileHoldsEach(hist)
    /\ AppendOk => KeptOtherVersions

\* C5 amended: the same, for appends whose overrides do not set version.
C5_HistoryAccumulatesWithoutVersionOverride ==
    /\ (CycleWritten /\ \A p \in hist : ~p[3]) => FileHoldsEach(hist)
    /\ (AppendOk /\ ~SetsVersion(last.call.extra)) => KeptOtherVersions

\* C5 witness: a second cycle has written the file, which holds the entry
\* the first cycle appended and the one the second appended.
C5_Witness ==
    /\ CycleWritten
    /\ \A p \in hist : ~p[3]
    /\ Cardinality(pend) = 1
    /\ Cardinality(hist) = 2
    /\ FileHoldsEach(hist)

\* What the index computes for a reserved key in the last append: from the
\* chart's accessors, the archive's bytes, the clock and baseUrl.
EngineValue(k) ==
    LET c == last.call
    IN IF impl = "indexTs"
       THEN ComputedIndexTs(c.chart, Sha256(c.bytes),
                            UrlsIndexTs(c.baseUrl, c.filename), last.t)[k]
       ELSE ComputedChartTs(c.chart, Sha256(c.bytes),
                            UrlsChartTs(c.baseUrl, c.filename), last.t)[k]

\* The entries of the appended name that carry the chart's version.
EntriesOfVersion == SelectSeq(NewList, LAMBDA e : e.version = version(last.call.chart))

\* The entry is the one the last append built, from that call alone.
IsOfLastAppend(e) ==
    /\ e = last.entry
    /\ \A k \in Keys : Present(k, last.call.extra[k]) => e[k] = last.call.extra[k]
    /\ \A k \in {"created", "digest", "urls"} :
          ~Present(k, last.call.extra[k]) => e[k] = EngineValue(k)
    /\ \A k \in Keys \ Reserved :
          (~Present(k, last.call.extra[k]) /\ ~Present(k, last.call.chart[k]))
              => ~Present(k, e[k])

C7_ComputedFieldsAlways ==
    AppendOk => \A k \in {"urls", "created", "digest"} : last.entry[k] = EngineValue(k)

\* C7 amended: whatever the manifest holds for a reserved key, the entry's
\* value for it is the one the index computed, unless the overrides hold the
\* key.
C7_ManifestCannotSetReserved ==
    AppendOk =>
        /\ Occurs(NewList, last.entry) >= 1
        /\ \A k \in Reserved :
              ~Present(k, last.call.extra[k]) => last.entry[k] = EngineValue(k)

\* C7 witness: a manifest that holds urls, created and digest of its own was
\* appended without overrides, by the revision that passes manifest keys on.
C7_Witness ==
    /\ AppendOk
    /\ impl = "chartTs"
    /\ last.call.extra = NoFields
    /\ \A k \in {"urls", "created", "digest"} :
          /\ Present(k, last.call.chart[k])
          /\ last.call.chart[k] # last.entry[k]
    /\ last.entry.appVersion = "42"

\* C8 as stated: no overrides map changes a reserved field of the entry.
C8_OverridesCannotSetReserved ==
    AppendOk => \A k \in Reserved : last.entry[k] = EngineValue(k)

\* C8 amended: the overrides are written last and win for every key they
\* hold, the reserved ones included; a reserved key they do not hold keeps
\* the value the index computed.
C8_OverridesWin ==
    AppendOk =>
        \A k \in Reserved :
            last.entry[k] = IF Present(k, last.call.extra[k])
                            THEN last.call.extra[k] ELSE EngineValue(k)

\* C8 witness: the overrides held urls, as publish passes them, and the
\* entry carries them instead of the URL computed from baseUrl.
C8_Witness ==
    /\ AppendOk
    /\ Present("urls", last.call.extra.urls)
    /\ last.entry.urls = last.call.extra.urls
    /\ last.entry.urls # EngineValue("urls")

\* C9 as stated: fromFile returns an index and raises no error, whatever the
\* path holds.
C9_FromFileNeverFails ==
    last.op = "fromFile" => (last.err = "none" /\ idx.kind # "none")

\* The file exists and does not parse, or parses to a document whose
\* apiVersion is not "v1".
InvalidFile ==
    \/ file.kind = "garbage"
    \/ file.kind \in {"empty", "scalar", "list", "map"} /\ file.apiVersion # "v1"

\* C10 as stated: fromFile of such a file returns an index equal to
\* HelmIndex.empty(), which carries nothing of the file into a writeTo.
C10_InvalidFileLoadsEmpty ==
    (last.op = "fromFile" /\ InvalidFile) =>
        /\ last.err = "none"
        /\ Cur = empty
        /\ Stringify(Cur) = Stringify(empty)

(***************************************************************************)
(* Loading, writing and the file.                                          *)
(***************************************************************************)
\* The document {apiVersion: v1, entries: {}} as a file holds it.
BareFile == MkFile("map", "v1", NoTime, FALSE, TRUE, NoEntries)

\* C11: fromFile on a path that does not exist returns an index equal to
\* empty(); writeTo of that index writes exactly {apiVersion: v1, entries: {}}
\* without a generated key; that index has no generated before an append, and
\* the index an append returns has one.
C11_MissingFileLoadsEmpty ==
    /\ (last.op = "fromFile" /\ file.kind = "absent") =>
           (last.err = "none" /\ Cur = empty /\ Cur = EmptyDoc)
    /\ (last.op = "writeTo" /\ prov.from.kind = "absent") => file = BareFile
    /\ prov.from.kind = "absent" => Cur.generated = NoTime
    /\ AppendOk => Cur.generated # NoTime

\* The index loaded from a missing path has been written, and in another
\* behaviour appended to.
C11_Witness ==
    /\ last.op = "writeTo"
    /\ prov.from.kind = "absent"
    /\ file = BareFile

(***************************************************************************)
(* The entry's urls, the timestamps and failures of append.                *)
(***************************************************************************)
\* C12 as stated: the entry's urls is the one-element list of the archive's
\* file name when baseUrl is empty or all whitespace, and otherwise of baseUrl
\* without its trailing slashes, a single "/" and the file name.
C12_UrlsForm ==
    (AppendOk /\ ~Present("urls", last.call.extra.urls)) =>
        LET b == last.call.baseUrl
            f == last.call.filename
        IN last.entry.urls =
               IF Trim(b) = <<>> THEN << <<f>> >>
               ELSE << StripTrailingSlashes(b) \o <<"/", f>> >>

\* C13 as stated: after every append the returned index's generated is the
\* timestamp computed in that call, which is also the created value of the
\* entry the call added.
C13_GeneratedIsEntryCreated ==
    AppendOk =>
        /\ Cur.generated = last.t
        /\ last.entry.created = Cur.generated

\* C13 amended: after every append, a replacing one included, the returned
\* index's generated is the timestamp computed in that call; the entry the
\* call added is in the list of the chart's name, and its created is that
\* timestamp unless the overrides hold created, which then is its value.
C13_GeneratedIsCallTime ==
    AppendOk =>
        /\ Cur.generated = last.t
        /\ \E i \in 1..Len(NewList) : NewList[i] = last.entry
        /\ IF Present("created", last.call.extra.created)
           THEN last.entry.created = last.call.extra.created
           ELSE last.entry.created = Cur.generated

\* An append at a later time replaced the version an earlier append of the
\* same index had added.
C13_Witness ==
    /\ AppendOk
    /\ last.again
    /\ snap.generated # NoTime
    /\ snap.generated # last.t
    /\ Cur.generated = last.t
    /\ last.entry.created = last.t

\* C14: append never writes the index file, so the file is after every
\* operation other than writeTo what it was before it, and after a fromFile
\* and any number of appends what the fromFile read; writeTo replaces the
\* whole content by the document of the index it is called on.
C14_OnlyWriteToWrites ==
    /\ last.op # "writeTo" => file = prov.before
    /\ (cycle = "loaded" /\ prov.from.kind # "none") => file = prov.from
    /\ last.op = "writeTo" => file = Stringify(Cur)

\* Two appends after a load: the file is still what it was, and is not the
\* merged document.
C14_Witness ==
    /\ AppendOk
    /\ cycle = "loaded"
    /\ Cardinality(pend) = 2
    /\ file = prov.before
    /\ file # Stringify(Cur)

\* C15: when the archive cannot be read, append fails with an error and
\* returns no index; the caller's receiver, its document and the index file
\* are what they were before the call.
C15_UnreadableArchiveFails ==
    (last.op = "append" /\ last.call.bytes = Unreadable) =>
        /\ last.err # "none"
        /\ last.entry = NoFields
        /\ idx = recv
        /\ Cur = snap
        /\ file = prov.before

\* The append of an unreadable archive failed on an index that holds entries.
C15_Witness ==
    /\ last.op = "append"
    /\ last.call.bytes = Unreadable
    /\ last.err = "ENOENT"
    /\ Key \in DOMAIN Cur.entries
    /\ Len(Cur.entries[Key]) >= 1

\* C16: a fromFile followed by writeTo without an append writes no generated
\* key that the file did not hold, and when the content it read had itself
\* been written by such a fromFile -> writeTo, it writes that content again.
C16_ReloadWriteStable ==
    (last.op = "writeTo" /\ prov.from.kind # "none") =>
        /\ prov.from.generated = NoTime => file.generated = NoTime
        /\ prov.rt => file = prov.from

\* The second fromFile -> writeTo in a row has written a document that holds
\* entries.
C16_Witness ==
    /\ last.op = "writeTo"
    /\ prov.rt
    /\ prov.from.kind = "map"
    /\ prov.from.entries # NoEntries
    /\ file = prov.from

(***************************************************************************)
(* Passthrough of the manifest.                                            *)
(***************************************************************************)
\* C17 as stated: the entry of a manifest that holds appVersion has the
\* string form of it as its appVersion (42 becomes "42", a string stays).
C17_AppVersionString ==
    (AppendOk /\ Present("appVersion", last.call.chart.appVersion)
              /\ ~Present("appVersion", last.call.extra.appVersion)) =>
        /\ last.entry.appVersion = StringOf(last.call.chart.appVersion)
        /\ ~IsNumTok(last.entry.appVersion)

(***************************************************************************)
(* HelmChart: raw(), withVersion and from.                                 *)
(***************************************************************************)
\* C18 as stated: whatever a caller does to a map returned by raw(), every
\* chart's raw(), name(), version() and toYAML() return afterwards what
\* they returned before.
C18_RawIsIndependent ==
    hc.last.op = "mutate" => ObserveAll(hc) = hc.last.before

\* C18 amended: raw() returns a shallow copy. After a caller assigns or
\* deletes keys of the returned map every chart's raw(), name(), version()
\* and toYAML() are what they were; after a change inside a value the map
\* holds (a push onto its list) name(), version() and the keys and scalar
\* values of raw() are what they were.
C18_RawIsShallowCopy ==
    hc.last.op = "mutate" =>
        /\ \A i \in 1..Len(hc.charts) :
              ObserveKeys(ObserveAll(hc)[i]) = ObserveKeys(hc.last.before[i])
        /\ hc.last.how # "push" => ObserveAll(hc) = hc.last.before

\* The caller has overwritten name and version in the map raw() gave it.
C18_Witness ==
    /\ hc.last.op = "mutate"
    /\ hc.last.how = "set"
    /\ hc.objs[hc.held[1]].data.name = "evil"
    /\ ObserveAll(hc)[1].name = "demo"
    /\ ObserveAll(hc)[1].raw[1].name = "demo"

\* C19: a withVersion(v) that returns gives a new chart whose version() is v
\* and whose other fields are the receiver's; the receiver and every chart
\* obtained earlier in the chain answer name(), version(), raw() and toYAML()
\* as before the call, also when the call fails.
C19_WithVersionLeavesReceiver ==
    hc.last.op = "withVersion" =>
        IF hc.last.err = "none"
        THEN LET n == Len(hc.charts)
                 new == hc.objs[hc.charts[n]]
                 old == hc.last.before[hc.last.recv]
             IN /\ n = Len(hc.last.before) + 1
                /\ version(new.data) = hc.last.v
                /\ \A k \in Keys \ {"version"} : new.data[k] = old.raw[1][k]
                /\ new.nested = (old.raw[2] # "absent")
                /\ \A i \in 1..(n - 1) : ObserveAll(hc)[i] = hc.last.before[i]
        ELSE ObserveAll(hc) = hc.last.before

\* A chain of two withVersion calls: the loaded chart still has its version.
C19_Witness ==
    /\ hc.last.op = "withVersion"
    /\ hc.last.err = "none"
    /\ Len(hc.charts) = 3
    /\ hc.last.recv = 2
    /\ ObserveAll(hc)[1].version = V100
    /\ ObserveAll(hc)[2].version = EmptyString
    /\ ObserveAll(hc)[3].version = V200

\* C20 as stated: HelmChart.from fails when Chart.yaml is unreadable, is no
\* key-value document or has an absent or empty name, and a chart it returns
\* has a non-empty name().
C20_FromValidatesName ==
    hc.last.op = "from" =>
        /\ (\/ hc.yaml.kind # "map"
            \/ ~Present("name", hc.yaml.data.name)
            \/ hc.yaml.data.name = "") => hc.last.err # "none"
        /\ hc.last.err = "none" => ObserveAll(hc)[1].name # ""

\* The Chart.yaml a chart was loaded from, as a map: null, a scalar and a
\* list spread to a map without keys.
OriginalMap ==
    IF hc.yaml.kind = "map"
    THEN <<hc.yaml.data, IF hc.yaml.nested THEN "orig" ELSE "absent">>
    ELSE <<NoFields, "absent">>

\* The last operation saved a chart made by withVersion, and no map of a
\* chart was handed out: the round trip load -> withVersion(v) -> saveTo.
RoundTripSaved ==
    /\ hc.last.op = "saveTo"
    /\ hc.last.recv >= 2
    /\ hc.held = <<>>

ShownAs(v) ==
    LET text == StreamText(v)
    IN IF Len(Trim(text)) > 0 THEN {<<Trim(text)>>}
       ELSE IF Len(text) > 0 THEN {<<>>, <<text>>} ELSE {<<>>}

\* C26: runHostCmd logs the command first; on success it returns the
\* trimmed stdout and logs it, or "(no output)" when it is empty, and logs
\* nothing to the error channel; on failure it logs "Command failed: <cmd>",
\* then the captured stdout, stderr and the message, in that order, and
\* throws the error it caught, returning nothing.
C26_RunHostCmdLogsAndRethrows ==
    sh.pc = "done" =>
        /\ Head(sh.ran.log) = PromptLine(sh.cmd)
        /\ sh.exec.kind = "ok" =>
             /\ sh.ran.outcome = "return"
             /\ sh.ran.value = Trim(sh.exec.stdout)
             /\ sh.ran.log = <<PromptLine(sh.cmd),
                               IF sh.ran.value = <<>> THEN NoOutputLine ELSE sh.ran.value>>
             /\ sh.ran.error = <<>>
        /\ sh.exec.kind = "throw" =>
             /\ sh.ran.outcome = "throw"
             /\ sh.ran.thrown = sh.exec.err
             /\ sh.ran.log = <<PromptLine(sh.cmd)>>
             /\ Head(sh.ran.error) = FailedLine(sh.cmd)
             /\ IF sh.exec.err.type = "object"
                THEN \E o \in ShownAs(sh.exec.err.stdout), e \in ShownAs(sh.exec.err.stderr) :
                        Tail(sh.ran.error) = o \o e \o MessageLines(sh.exec.err.message)
                ELSE Tail(sh.ran.error) = <<>>

C26_Witness ==
    /\ sh.pc = "done"
    /\ sh.exec = ExecThrow(ErrObject(Str(<<" ", "out", " ">>), Buf(<<"err", " ">>),
                                     Str(<<"boom">>)))
    /\ sh.ran.error = <<FailedLine(GitPush), <<"out">>, <<"err">>, <<"boom">>>>
    /\ sh.ran.outcome = "throw"

\* A credential as the claim takes it: from the plugin configuration, and
\* from the environment only when the configuration omits it; it is present
\* when it is a non-empty string.
CredPresent(fromConfig, fromEnv) ==
    IF fromConfig.t \in {"undefined", "null"} THEN Truthy(fromEnv) ELSE Truthy(fromConfig)

\* Docker runs, both images are pulled and Chart.yaml exists: the checks
\* that come before the credentials have passed.
ReachesCredentials ==
    vc.host.docker /\ vc.host.helmImage /\ vc.host.docsImage /\ vc.host.chartYaml

\* C24: with ociRepo configured, verifyConditions fails with
\* EOCICREDSINCOMPLETE exactly when one of username and password is present
\* and the other is not (each taken from the configuration, from
\* OCI_USERNAME / OCI_PASSWORD only when the configuration omits it); with
\* both or neither it does not fail on credentials.
C24_IncompleteCredsRejected ==
    vc.pc = "done" =>
        LET user == CredPresent(vc.cfg.ociUsername, vc.env.OCI_USERNAME)
            pass == CredPresent(vc.cfg.ociPassword, vc.env.OCI_PASSWORD)
        IN /\ (vc.result = "EOCICREDSINCOMPLETE") => Truthy(vc.cfg.ociRepo) /\ user # pass
           /\ Truthy(vc.cfg.ociRepo) /\ ReachesCredentials =>
                 /\ user # pass => vc.result = "EOCICREDSINCOMPLETE"
                 /\ user = pass => vc.result = "ok"

\* The configuration holds an empty user name and a password, the
\* environment a user name: the user name of the configuration counts.
C24_Witness ==
    /\ vc.pc = "done"
    /\ vc.cfg.ociUsername = Str(<<>>)
    /\ vc.cfg.ociPassword = Str(<<"cfg">>)
    /\ vc.env.OCI_USERNAME = Str(<<"env">>)
    /\ vc.result = "EOCICREDSINCOMPLETE"

\* The steps of prepare in the order of its text.
PrepareOrder == <<"version", "lint", "template", "helm-docs", "package">>

Attempted(step) == \E i \in 1..Len(prep.trace) : prep.trace[i] = step

PrepareEnded == prep.pc \in {"done", "failed"}

\* C29: prepare runs its steps in the order rewrite Chart.yaml version, helm
\* lint, helm template, helm-docs, helm package; a failure of lint or of
\* template ends prepare before the chart is packaged; a failure of
\* helm-docs is swallowed and packaging still runs.
C29_PrepareStepOrder ==
    /\ prep.trace = SubSeq(PrepareOrder, 1, Len(prep.trace))
    /\ PrepareEnded /\ Attempted("lint") /\ (~prep.cmds.lint \/ ~prep.cmds.template) =>
          /\ prep.pc = "failed"
          /\ ~Attempted("package")
          /\ prep.dist = prep.was.dist
    /\ PrepareEnded /\ Attempted("lint") /\ prep.cmds.lint /\ prep.cmds.template =>
          /\ Attempted("helm-docs")
          /\ Attempted("package")
          /\ prep.cmds.package => prep.pc = "done" /\ V200 \in prep.dist.archives

\* helm-docs failed and the chart was packaged all the same.
C29_Witness ==
    /\ prep.pc = "done"
    /\ ~prep.cmds.docs
    /\ prep.trace = PrepareOrder
    /\ prep.dist.archives = {V100, V200}

\* C30: without nextRelease.version prepare fails with ENOVERSION, and with
\* a version but no Chart.yaml it fails with EMISSINGCHARTYAML; in both cases
\* it has written no file and run no container: Chart.yaml and dist/charts
\* are as they were.
C30_PrepareFailsEarly ==
    prep.pc # "begin" =>
        /\ ~Truthy(prep.version) => prep.pc = "failed" /\ prep.result = "ENOVERSION"
        /\ Truthy(prep.version) /\ prep.was.chartYaml.kind = "absent" =>
              prep.pc = "failed" /\ prep.result = "EMISSINGCHARTYAML"
        /\ prep.result \in {"ENOVERSION", "EMISSINGCHARTYAML"} =>
              /\ prep.trace = <<>>
              /\ prep.chartYaml = prep.was.chartYaml
              /\ prep.dist = prep.was.dist

\* dist/charts was missing and still is after the failure.
C30_Witness ==
    /\ prep.pc = "failed"
    /\ prep.result = "EMISSINGCHARTYAML"
    /\ prep.version = Str(V200)
    /\ prep.dist = DistCharts(FALSE, {})

\* index.yaml at the tip of the remote gh-pages branch.
RemoteIndex == Tip(pub.remote).index

\* Its entries of the released chart at the released version.
ReleasedEntries ==
    LET Released(e) == e.version = version(pub.chart)
    IN SelectSeq(ListOf(RemoteIndex.entries, name(pub.chart)), Released)

\* The urls of an entry naming the archive: prefixed by ghPages.url when it
\* is set, the bare file name otherwise.
UrlsNaming(url, filename) ==
    IF url.t = "string" /\ Len(Trim(url.s)) > 0
    THEN << url.s \o <<"/", filename>> >>
    ELSE << <<filename>> >>

GhPublished == pub.pc = "done" /\ pub.cfg.gh

\* C22: after a gh-pages publish of chart N at version V the index.yaml
\* entry of (N, V) has urls naming the archive N-V.tgz and the SHA-256 of
\* that archive's bytes as digest, whatever dist/charts holds.
C22_EntryIsOfOwnArchive ==
    GhPublished =>
        /\ Len(ReleasedEntries) = 1
        /\ ReleasedEntries[1].urls = UrlsNaming(pub.cfg.url, OwnArchive.filename)
        /\ ReleasedEntries[1].digest = Sha256(OwnArchive.bytes)

\* C23: the worktree is created from the remote branch when the
\* remote-tracking ref exists after the fetch, otherwise from the local
\* branch when there is one, otherwise from a fresh orphan branch; the
\* push is never rejected, and when publish has ended the remote branch
\* exists, continues what it held and its index.yaml lists the released
\* version.
C23_WorktreeSourceAndPush ==
    /\ pub.src # "none" =>
          /\ pub.hadRef <=> pub.was.remote # NoBranch
          /\ pub.src = IF pub.hadRef THEN "remote"
                       ELSE IF pub.was.local # NoBranch THEN "local" ELSE "orphan"
    /\ ~pub.rejected
    /\ GhPublished =>
          /\ pub.remote # NoBranch
          /\ CanFastForward(pub.was.remote, pub.remote)
          /\ ReleasedEntries # <<>>

\* The remote branch was seeded and a local branch of another history
\* existed: the worktree came from the remote branch and the push went
\* through.
C23_Witness ==
    /\ GhPublished
    /\ pub.seed = "both"
    /\ pub.src = "remote"
    /\ Len(pub.remote) = 2
    /\ ReleasedEntries # <<>>

C28_RejectedPushIsRetried ==
    pub.pc \in {"done", "failed"} /\ pub.rejected => ReleasedEntries # <<>>

BothWrote == \A p \in Publishers : conc.procs[p].pc = "done"

\* The publisher that wrote first, and the other one.
FirstWriter == IF conc.procs[1].wroteAt < conc.procs[2].wroteAt THEN 1 ELSE 2

SecondWriter == 3 - FirstWriter

\* Each fromFile -> append -> writeTo ran as one unit: the second writer
\* loaded after the first one had written. Otherwise both had loaded before
\* either wrote.
RanAsUnits == conc.procs[SecondWriter].loadedAt > conc.procs[FirstWriter].wroteAt

\* index.yaml holds the entry publisher p appended.
FileHasEntryOf(p) ==
    LET e == conc.procs[p].entry
        list == ListOf(conc.file.entries, e.name)
    IN /\ conc.file.kind = "map"
       /\ \E k \in 1..Len(list) : list[k] = e

\* C27: nothing locks index.yaml. When both publishers have written, the
\* file holds the entry of the one that wrote last; it holds the entry of
\* the one that wrote first exactly when each fromFile -> append -> writeTo
\* ran as one uninterrupted unit, and lacks it when both loaded before
\* either wrote.
C27_InterleavedPublishersLoseFirstEntry ==
    BothWrote =>
        /\ FileHasEntryOf(SecondWriter)
        /\ FileHasEntryOf(FirstWriter) <=> RanAsUnits

\* Both loaded, then both wrote: the entry of the first writer is gone.
C27_Witness ==
    /\ BothWrote
    /\ ~RanAsUnits
    /\ conc.procs[1].loadedAt < conc.procs[2].wroteAt
    /\ conc.procs[2].loadedAt < conc.procs[1].wroteAt
    /\ ~FileHasEntryOf(FirstWriter)
    /\ FileHasEntryOf(SecondWriter)

\* C35: HelmChart.withVersion fails when the new version is the empty
\* string and returns no chart then; every chart that withVersion returned
\* has a non-empty version().
C35_WithVersionRejectsEmpty ==
    /\ (hc.last.op = "withVersion" /\ hc.last.v = EmptyString) => hc.last.err # "none"
    /\ \A i \in 1..Len(hc.charts) :
          hc.args[i] # NoVer => version(hc.objs[hc.charts[i]].data) # EmptyString

\* What the normalised README reads: the content the file would hold after
\* every block was rewritten.
NormalizedOf(readme) == normalizeReadmeValuesTableContent(readme.content).updated

\* C37: normalizeReadmeValuesTableFile reports changed = true and rewrites
\* the file exactly when the normalised content differs from the original;
\* a README that is absent, has no marker block or is already normalised
\* gives changed = false and is not written.
C37_WritesOnlyWhenContentDiffers ==
    prep.pc = "normalized" =>
        LET differs == prep.original.exists
                         /\ NormalizedOf(prep.original) # prep.original.content
        IN /\ prep.changed <=> differs
           /\ prep.wrote <=> differs

\* The value the manifest of the last append supplies for key k, appVersion
\* in its string form.
ManifestValue(k) ==
    IF k = "appVersion" THEN StringOf(last.call.chart[k]) ELSE last.call.chart[k]

\* C33: overrides are applied after the manifest passthrough: of the keys
\* that are not reserved, one that the manifest and the overrides both hold
\* has the overrides' value in the entry, and one that only the manifest
\* holds has the manifest's value.
C33_OverridesAfterPassthrough ==
    AppendOk =>
        \A k \in Keys \ Reserved :
            Present(k, last.call.chart[k]) =>
                last.entry[k] = IF Present(k, last.call.extra[k])
                                THEN last.call.extra[k] ELSE ManifestValue(k)

\* Every entry of every list of the index carries the name it is listed
\* under.
NamesMatchKeys ==
    \A n \in DOMAIN Cur.entries :
        \A i \in 1..Len(Cur.entries[n]) : Cur.entries[n][i].name = n

\* C38 as stated: whatever the overrides, every entry stored in entries[N]
\* has the name N, and the entry of an append has the version of the
\* manifest it was appended for.
C38_EntryMatchesKeyAndManifest ==
    /\ idx.kind = "map" => NamesMatchKeys
    /\ AppendOk => last.entry.version = version(last.call.chart)

\* C38 amended: an append whose overrides hold neither name nor version
\* stores, in the list of the manifest's name, an entry whose name is that
\* name and whose version is the manifest's version, and adds no other entry
\* to that list.
C38_EntryMatchesKeyWithoutOverride ==
    (AppendOk /\ ~Present("name", last.call.extra.name) /\ ~SetsVersion(last.call.extra)) =>
        /\ Occurs(NewList, last.entry) >= 1
        /\ last.entry.name = Key
        /\ last.entry.version = version(last.call.chart)
        /\ \A i \in 1..Len(NewList) :
              NewList[i] = last.entry \/ Occurs(OldList, NewList[i]) >= 1

\* C38 witness: an append with overrides that name neither name nor version
\* added the second version to the list of app, and every entry of the
\* index carries the name of its list.
C38_Witness ==
    /\ AppendOk
    /\ ~Present("name", last.call.extra.name)
    /\ ~SetsVersion(last.call.extra)
    /\ Present("description", last.call.extra.description)
    /\ Len(NewList) >= 2
    /\ Len(OldList) >= 1
    /\ Occurs(OldList, last.entry) = 0
    /\ NamesMatchKeys

\* The manifest of the last append has no name or no version to show.
BlankManifest ==
    \/ name(last.call.chart) = ""
    \/ version(last.call.chart) \in {NoVer, EmptyString}

\* C34: append fails when the manifest's name or version is empty or
\* absent: no index holds a list under the empty name or an entry whose
\* version is the empty string.
C34_AppendFailsFast ==
    /\ (last.op = "append" /\ BlankManifest) => last.err # "none"
    /\ idx.kind = "map" =>
          /\ "" \notin DOMAIN Cur.entries
          /\ \A n \in DOMAIN Cur.entries :
                \A i \in 1..Len(Cur.entries[n]) : Cur.entries[n][i].version # EmptyString

\* Versions "1.0" and "1.0.0" of app were both appended to the index at hand.
BothPadded == <<"app", V10, FALSE>> \in pend /\ <<"app", V100, FALSE>> \in pend

\* C36: the version ordering pads missing segments with zero, so "1.0" and
\* "1.0.0" rank equal; they are different strings, so after both were
\* appended the list of the name holds one entry of each.
C36_PaddedVersionsCoexist ==
    /\ CompareVersions(V10, V100) = 0
    /\ CompareVersions(V100, V10) = 0
    /\ BothPadded =>
          /\ CountVersion(ListOf(Cur.entries, "app"), V10) = 1
          /\ CountVersion(ListOf(Cur.entries, "app"), V100) = 1

\* C36 witness: the append of one of the two versions found the other in
\* the list and left it there.
C36_Witness ==
    /\ AppendOk
    /\ BothPadded
    /\ Len(OldList) = 1
    /\ Len(NewList) = 2
    /\ OldList[1].version # last.entry.version
    /\ Occurs(NewList, OldList[1]) = 1

\* The steps of the gh-pages part that were carried out, in their order.
GhEffects ==
    SelectSeq(pub.effects, LAMBDA e : e # "registry login" /\ e # "helm push")

\* The steps of a gh-pages publish of n packaged files, in the order of
\* index.ts:552-639; "git commit" is git add and git commit.
GhOrder(n) ==
    <<"cleanup", "git fetch", "git worktree add", "copy", "load index.yaml">>
      \o [k \in 1..n |-> "append"]
      \o <<"write index.yaml", "git commit", "git push", "git worktree remove">>

\* C31: a gh-pages publish creates the worktree, copies the archives, loads
\* index.yaml, appends once per archive, writes index.yaml, commits, pushes
\* and removes the worktree, in this order; the push comes after the write,
\* and when an earlier step raises there is no commit and no push.
C31_GhPagesStepOrder ==
    LET order == GhOrder(Len(PackagedFiles(pub.dist)))
    IN /\ Len(GhEffects) <= Len(order)
       /\ GhEffects = SubSeq(order, 1, Len(GhEffects))
       /\ (pub.pc = "failed" /\ ~pub.rejected) =>
             /\ \A k \in 1..Len(GhEffects) : GhEffects[k] # "git commit" /\ GhEffects[k] # "git push"
             /\ pub.remote = pub.was.remote

\* C31 witness: a publish of two packaged files went through every step.
C31_Witness ==
    /\ GhPublished
    /\ Len(PackagedFiles(pub.dist)) = 2
    /\ GhEffects = GhOrder(2)

\* C32: every gh-pages publish clears .gh-pages-tmp before it creates its
\* worktree, so whatever an earlier publish left there, the worktree is
\* created and no publish fails for it.
C32_StaleWorktreeIsCleared ==
    /\ pub.result # "worktree add failed"
    /\ pub.pc = "add" => pub.tmp = "none"
    /\ pub.pc \in {"index", "commit", "push", "remove"} =>
          pub.tmp = "worktree" /\ pub.src # "none"
    /\ GhPublished => pub.tmp = "none"

\* C32 witness: a publish failed after it had created its worktree, and the
\* publish after it went through and released the chart.
C32_Witness ==
    /\ pub.run = 2
    /\ pub.left
    /\ pub.was.tmp = "worktree"
    /\ GhPublished
    /\ ReleasedEntries # <<>>

====
